---- MODULE Spec2Model ----
(***************************************************************************)
(* LazyPost: a terminal HTTP client built on Bubble Tea.  The root model   *)
(* (ui.App) owns a method selector, a URL field, a submit button, a tab    *)
(* container (Query tab: Params / Auth / Headers / Body, Result tab:       *)
(* Headers / Body), a toast and a spinner.  Every Go method that changes   *)
(* state is an operator from the receiver's old value to its new value;    *)
(* the actions at the end deliver messages to App.Update.                  *)
(***************************************************************************)
EXTENDS Integers, Sequences, FiniteSets, TLC

(***************************************************************************)
(* Messages.  A tea.KeyMsg is modelled by what the handlers read of it:    *)
(* msg.String() and the runes it carries (empty for a named key, one rune  *)
(* for a typed character, several for pasted text).                        *)
(***************************************************************************)
Key(name) == [str |-> name, runes |-> <<>>]

Rune(c) == [str |-> c, runes |-> <<c>>]

Paste(text) == [str |-> "[paste]", runes |-> text]

\* int(float64(x) * (num/den)) for the factors the layout code uses: Go's
\* conversion truncates toward zero.
TruncMul(x, num, den) ==
    IF x >= 0 THEN (x * num) \div den ELSE -(((-x) * num) \div den)

Max(a, b) == IF a >= b THEN a ELSE b

Min(a, b) == IF a <= b THEN a ELSE b

(***************************************************************************)
(* bubbles/textinput.Model, as far as the program drives it: value, cursor *)
(* position, focus flag and character limit (0 = unlimited).               *)
(***************************************************************************)
NewTextInput(limit) == [value |-> <<>>, pos |-> 0, focus |-> FALSE, CharLimit |-> limit]

TextInputFocus(ti) == [ti EXCEPT !.focus = TRUE]

TextInputBlur(ti) == [ti EXCEPT !.focus = FALSE]

\* Insertion of user runes at the cursor, cut to the free space.
TextInputInsert(ti, runes) ==
    LET avail == IF ti.CharLimit > 0 THEN ti.CharLimit - Len(ti.value) ELSE Len(runes)
        ins   == IF avail <= 0 THEN <<>>
                 ELSE IF avail < Len(runes) THEN SubSeq(runes, 1, avail) ELSE runes
    IN [ti EXCEPT !.value = SubSeq(ti.value, 1, ti.pos) \o ins
                            \o SubSeq(ti.value, ti.pos + 1, Len(ti.value)),
                  !.pos = ti.pos + Len(ins)]

TextInputUpdate(ti, msg) ==
    IF ~ti.focus THEN ti
    ELSE CASE msg.str = "left"  -> [ti EXCEPT !.pos = Max(ti.pos - 1, 0)]
           [] msg.str = "right" -> [ti EXCEPT !.pos = Min(ti.pos + 1, Len(ti.value))]
           [] msg.str \notin {"left", "right"} /\ msg.runes # <<>> -> TextInputInsert(ti, msg.runes)
           [] OTHER -> ti

(***************************************************************************)
(* MethodSelector                                                          *)
(***************************************************************************)
NewMethodSelector ==
    [Methods |-> <<"GET", "POST", "PUT", "DELETE", "PATCH">>,
     SelectedMethod |-> 0, Active |-> FALSE, DropdownOpen |-> FALSE]

MethodSelectorSetActive(m, active) == [m EXCEPT !.Active = active]

\* Next without the wrap-around.
MethodSelectorNextNoWrap(m) == [m EXCEPT !.SelectedMethod = m.SelectedMethod + 1]

MethodSelectorNext(m) ==
    [m EXCEPT !.SelectedMethod = (m.SelectedMethod + 1) % Len(m.Methods)]

MethodSelectorPrev(m) ==
    [m EXCEPT !.SelectedMethod = (m.SelectedMethod - 1 + Len(m.Methods)) % Len(m.Methods)]

MethodSelectorUpdate(m, msg) ==
    IF ~m.Active THEN m
    ELSE CASE msg.str = "enter" -> [m EXCEPT !.DropdownOpen = ~m.DropdownOpen]
           [] msg.str = "down"  -> IF m.DropdownOpen THEN MethodSelectorNext(m) ELSE m
           [] msg.str = "up"    -> IF m.DropdownOpen THEN MethodSelectorPrev(m) ELSE m
           [] OTHER -> m

(***************************************************************************)
(* URLInput                                                                *)
(***************************************************************************)
\* TextInput.Width, the display width of the inner text input, is kept as
\* textInputWidth.
NewURLInput ==
    [TextInput |-> TextInputFocus(NewTextInput(256)), textInputWidth |-> 80,
     Width |-> 0, Active |-> TRUE]

URLInputSetWidth(u, width) == [u EXCEPT !.Width = width, !.textInputWidth = width - 4]

URLInputSetActive(u, active) ==
    [u EXCEPT !.Active = active,
              !.TextInput = IF active THEN TextInputFocus(@) ELSE TextInputBlur(@)]

URLInputGetText(u) == u.TextInput.value

URLInputSelectAllText(u) == [u EXCEPT !.TextInput.pos = Len(u.TextInput.value)]

URLInputUpdate(u, msg) ==
    IF u.Active THEN [u EXCEPT !.TextInput = TextInputUpdate(@, msg)] ELSE u

(***************************************************************************)
(* SubmitButton, Toast, Spinner                                            *)
(***************************************************************************)
NewSubmitButton == [Active |-> FALSE]

SubmitButtonSetActive(b, active) == [b EXCEPT !.Active = active]

\* Update reports whether the button was pressed; it changes no state.
SubmitButtonUpdate(b, msg) == b.Active /\ msg.str = "enter"

\* Message is the sequence of fragments whose concatenation is the text.
NewToast == [Message |-> <<>>, Visible |-> FALSE]

\* A Show that raises nothing.
ToastShowNothing(t, message) == t

ToastShow(t, message) == [t EXCEPT !.Message = message, !.Visible = TRUE]

\* A Hide that keeps the message text.
ToastHideKeepingMessage(t) == [t EXCEPT !.Visible = FALSE]

ToastHide(t) == [t EXCEPT !.Message = <<>>, !.Visible = FALSE]

NumFrames == 10

NewSpinner == [Visible |-> FALSE, FrameIdx |-> 0]

SpinnerShow(s) == [s EXCEPT !.Visible = TRUE]

SpinnerHide(s) == [s EXCEPT !.Visible = FALSE]

SpinnerUpdate(s) ==
    IF ~s.Visible THEN s ELSE [s EXCEPT !.FrameIdx = (s.FrameIdx + 1) % NumFrames]

\* The command Spinner.Update returns for a SpinnerTickMsg: the next tick of
\* a visible spinner, nothing of a hidden one.
SpinnerUpdateCmdsAlways(s) == {"tick"}

SpinnerUpdateCmds(s) == IF ~s.Visible THEN {} ELSE {"tick"}

(***************************************************************************)
(* ParamsContainer: the query-parameter grid (rows are 0-based; Inputs is  *)
(* a 1-based sequence, so row r is Inputs[r + 1]).                         *)
(***************************************************************************)
numParamRows == 6

\* lipgloss RoundedBorder: one line above and one below; no padding.
VerticalBorderSize == 2

HorizontalBorderSize == 2

NewParamInput == [NameInput |-> NewTextInput(35), ValueInput |-> NewTextInput(35)]

NewParamsContainer ==
    [Inputs |-> [i \in 1..numParamRows |->
                    IF i = 1 THEN [NewParamInput EXCEPT !.NameInput = TextInputFocus(@)]
                    ELSE NewParamInput],
     Width |-> 0, Height |-> 0, Active |-> FALSE,
     focusedRow |-> 0, focusedCol |-> 0, scrollOffset |-> 0, contentWidth |-> 0,
     nameInputWidth |-> 0, valueInputWidth |-> 0]

\* The outer widths SetWidth gives the name column and the value column
\* when inputsTotalOuterWidth is left for the two.
nameColOuterWidth(inputsTotalOuterWidth) ==
    Max(IF inputsTotalOuterWidth >= 74 THEN 37 ELSE inputsTotalOuterWidth \div 2, 0)

valueColOuterWidth(inputsTotalOuterWidth) ==
    Max(IF inputsTotalOuterWidth >= 74 THEN 37
        ELSE inputsTotalOuterWidth - inputsTotalOuterWidth \div 2, 0)

\* SetWidth as it would be without the lower bound on the content widths of
\* the text inputs.
ParamsSetWidthUnclamped(pc, width) ==
    LET contentWidth == Max(width - HorizontalBorderSize, 0)
        inputsTotalOuterWidth == Max(contentWidth - 1, 0)
    IN [pc EXCEPT !.Width = width, !.contentWidth = contentWidth,
                  !.nameInputWidth = nameColOuterWidth(inputsTotalOuterWidth) - 2,
                  !.valueInputWidth = valueColOuterWidth(inputsTotalOuterWidth) - 2]

\* Every NameInput gets the same Width and every ValueInput the same Width;
\* the two values are kept once, as nameInputWidth and valueInputWidth.
ParamsSetWidth(pc, width) ==
    LET contentWidth == Max(width - HorizontalBorderSize, 0)
        inputsTotalOuterWidth == Max(contentWidth - 1, 0)
    IN [pc EXCEPT !.Width = width, !.contentWidth = contentWidth,
                  !.nameInputWidth = Max(nameColOuterWidth(inputsTotalOuterWidth) - 2, 0),
                  !.valueInputWidth = Max(valueColOuterWidth(inputsTotalOuterWidth) - 2, 0)]

ParamsSetHeight(pc, height) == [pc EXCEPT !.Height = height]

ParamsBlurAllInputs(pc) ==
    [pc EXCEPT !.Inputs = [i \in 1..Len(pc.Inputs) |->
        [NameInput |-> TextInputBlur(pc.Inputs[i].NameInput),
         ValueInput |-> TextInputBlur(pc.Inputs[i].ValueInput)]]]

ParamsFocusCurrentInput(pc) ==
    LET b == ParamsBlurAllInputs(pc)
    IN IF pc.focusedRow >= 0 /\ pc.focusedRow < Len(pc.Inputs)
       THEN IF pc.focusedCol = 0
            THEN [b EXCEPT !.Inputs[pc.focusedRow + 1].NameInput = TextInputFocus(@)]
            ELSE [b EXCEPT !.Inputs[pc.focusedRow + 1].ValueInput = TextInputFocus(@)]
       ELSE b

getNumDisplayableInputRows(pc) ==
    IF pc.Height <= 0 THEN numParamRows
    ELSE LET d0 == pc.Height - VerticalBorderSize - 2
             d1 == IF numParamRows > d0 /\ d0 > 0 THEN d0 - 1 ELSE d0
             d2 == IF d1 < 0 THEN 0 ELSE d1
         IN IF d2 > numParamRows THEN numParamRows ELSE d2

\* A window maintenance that scrolls one row too little when the focused row
\* is below the window.
ensureFocusedInputVisibleShort(pc) ==
    LET numDisplayable == getNumDisplayableInputRows(pc)
    IN IF numDisplayable <= 0 \/ numDisplayable >= numParamRows
       THEN [pc EXCEPT !.scrollOffset = 0]
       ELSE LET o1 == IF pc.focusedRow < pc.scrollOffset THEN pc.focusedRow
                      ELSE IF pc.focusedRow >= pc.scrollOffset + numDisplayable
                           THEN pc.focusedRow - numDisplayable
                           ELSE pc.scrollOffset
                o2 == IF o1 < 0 THEN 0 ELSE o1
                maxScrollOffset == Max(numParamRows - numDisplayable, 0)
            IN [pc EXCEPT !.scrollOffset = IF o2 > maxScrollOffset THEN maxScrollOffset ELSE o2]

ensureFocusedInputVisible(pc) ==
    LET numDisplayable == getNumDisplayableInputRows(pc)
    IN IF numDisplayable <= 0 \/ numDisplayable >= numParamRows
       THEN [pc EXCEPT !.scrollOffset = 0]
       ELSE LET o1 == IF pc.focusedRow < pc.scrollOffset THEN pc.focusedRow
                      ELSE IF pc.focusedRow >= pc.scrollOffset + numDisplayable
                           THEN pc.focusedRow - numDisplayable + 1
                           ELSE pc.scrollOffset
                o2 == IF o1 < 0 THEN 0 ELSE o1
                maxScrollOffset == Max(numParamRows - numDisplayable, 0)
            IN [pc EXCEPT !.scrollOffset = IF o2 > maxScrollOffset THEN maxScrollOffset ELSE o2]

\* A SetActive whose activation also moves the scrolled window on by a row.
ParamsSetActiveScrolling(pc, active) ==
    LET p == [pc EXCEPT !.Active = active]
    IN IF active
       THEN ParamsFocusCurrentInput(
                [p EXCEPT !.scrollOffset = IF @ > 0 THEN @ - 1 ELSE @])
       ELSE ParamsBlurAllInputs(p)

ParamsSetActive(pc, active) ==
    LET p == [pc EXCEPT !.Active = active]
    IN IF active THEN ParamsFocusCurrentInput(ensureFocusedInputVisible(p))
       ELSE ParamsBlurAllInputs(p)

ParamsBlur(pc) == ParamsBlurAllInputs(pc)

\* A "left" that stays in column 0 instead of going to the previous row.
ParamsMoveLeftStay(pc) ==
    IF pc.focusedCol = 1
    THEN ParamsFocusCurrentInput([pc EXCEPT !.focusedCol = 0])
    ELSE pc

\* A "right" that wraps from the last cell of the grid to the first.
ParamsMoveRightWrap(pc) ==
    IF pc.focusedCol = 0
    THEN ParamsFocusCurrentInput([pc EXCEPT !.focusedCol = 1])
    ELSE ensureFocusedInputVisible(ParamsFocusCurrentInput(
             [pc EXCEPT !.focusedRow = (pc.focusedRow + 1) % numParamRows,
                        !.focusedCol = 0]))

\* The "left" and "shift+tab" branches of Update.
ParamsMoveLeft(pc) ==
    IF pc.focusedCol = 1
    THEN ParamsFocusCurrentInput([pc EXCEPT !.focusedCol = 0])
    ELSE IF pc.focusedCol = 0 /\ pc.focusedRow > 0
         THEN ensureFocusedInputVisible(ParamsFocusCurrentInput(
                  [pc EXCEPT !.focusedRow = pc.focusedRow - 1, !.focusedCol = 1]))
         ELSE pc

ParamsMoveRight(pc) ==
    IF pc.focusedCol = 0
    THEN ParamsFocusCurrentInput([pc EXCEPT !.focusedCol = 1])
    ELSE IF pc.focusedCol = 1 /\ pc.focusedRow < numParamRows - 1
         THEN ensureFocusedInputVisible(ParamsFocusCurrentInput(
                  [pc EXCEPT !.focusedRow = pc.focusedRow + 1, !.focusedCol = 0]))
         ELSE pc

ParamsUpdate(pc, msg) ==
    IF ~pc.Active THEN pc
    ELSE CASE msg.str = "up" ->
                IF pc.focusedRow > 0
                THEN ensureFocusedInputVisible(ParamsFocusCurrentInput(
                         [pc EXCEPT !.focusedRow = pc.focusedRow - 1]))
                ELSE pc
           [] msg.str = "down" ->
                IF pc.focusedRow < numParamRows - 1
                THEN ensureFocusedInputVisible(ParamsFocusCurrentInput(
                         [pc EXCEPT !.focusedRow = pc.focusedRow + 1]))
                ELSE pc
           [] msg.str = "left" -> ParamsMoveLeft(pc)
           [] msg.str = "right" -> ParamsMoveRight(pc)
           [] msg.str = "shift+tab" -> ParamsMoveLeft(pc)
           [] OTHER ->
                IF pc.focusedRow >= 0 /\ pc.focusedRow < Len(pc.Inputs)
                THEN IF pc.focusedCol = 0
                     THEN [pc EXCEPT !.Inputs[pc.focusedRow + 1].NameInput = TextInputUpdate(@, msg)]
                     ELSE [pc EXCEPT !.Inputs[pc.focusedRow + 1].ValueInput = TextInputUpdate(@, msg)]
                ELSE pc

(***************************************************************************)
(* AuthSelector: the auth-type dropdown, with its key map.                 *)
(***************************************************************************)
authTypeOptions == <<"None", "Basic", "Bearer", "JWT", "OAuth2", "API Key">>

AuthSelectorKeyMap ==
    [Open |-> {"enter", " "}, Close |-> {"esc"}, Next |-> {"down", "j"},
     Prev |-> {"up", "k"}, Select |-> {"enter"}]

NewAuthSelector ==
    [options |-> authTypeOptions, selectedIndex |-> 0, highlightedIndex |-> 0,
     isOpen |-> FALSE, active |-> FALSE]

AuthSelectorSetActive(as, active) == [as EXCEPT !.active = active]

AuthSelectorUpdate(as, msg) ==
    IF ~as.active THEN as
    ELSE IF as.isOpen
    THEN CASE msg.str \in AuthSelectorKeyMap.Close ->
                [as EXCEPT !.isOpen = FALSE, !.highlightedIndex = as.selectedIndex]
           [] msg.str \in AuthSelectorKeyMap.Next ->
                [as EXCEPT !.highlightedIndex = (as.highlightedIndex + 1) % Len(as.options)]
           [] msg.str \in AuthSelectorKeyMap.Prev ->
                [as EXCEPT !.highlightedIndex =
                    (as.highlightedIndex - 1 + Len(as.options)) % Len(as.options)]
           [] msg.str \in AuthSelectorKeyMap.Select ->
                [as EXCEPT !.selectedIndex = as.highlightedIndex, !.isOpen = FALSE]
           [] OTHER -> as
    ELSE IF msg.str \in AuthSelectorKeyMap.Open
         THEN [as EXCEPT !.isOpen = TRUE, !.highlightedIndex = as.selectedIndex]
         ELSE as

(***************************************************************************)
(* The auth detail components.  Basic has two text fields, Bearer one;     *)
(* JWT, API Key and OAuth2 are placeholders holding only an active flag.   *)
(***************************************************************************)
basicAuthUsernameField == 0

basicAuthPasswordField == 1

NewBasicAuthDetailsComponent ==
    [active |-> FALSE, usernameInput |-> NewTextInput(0), passwordInput |-> NewTextInput(0),
     focusedField |-> basicAuthUsernameField]

BasicAuthSetActive(c, active) ==
    IF ~active
    THEN [c EXCEPT !.active = FALSE, !.usernameInput = TextInputBlur(@),
                   !.passwordInput = TextInputBlur(@)]
    ELSE IF c.focusedField = basicAuthPasswordField
         THEN [c EXCEPT !.active = TRUE, !.passwordInput = TextInputFocus(@),
                        !.usernameInput = TextInputBlur(@)]
         ELSE [c EXCEPT !.active = TRUE, !.focusedField = basicAuthUsernameField,
                        !.usernameInput = TextInputFocus(@),
                        !.passwordInput = TextInputBlur(@)]

\* Both key groups toggle between the two fields.
BasicAuthToggleField(c) ==
    IF c.focusedField = basicAuthUsernameField
    THEN [c EXCEPT !.usernameInput = TextInputBlur(@),
                   !.focusedField = basicAuthPasswordField,
                   !.passwordInput = TextInputFocus(@)]
    ELSE [c EXCEPT !.passwordInput = TextInputBlur(@),
                   !.focusedField = basicAuthUsernameField,
                   !.usernameInput = TextInputFocus(@)]

BasicAuthUpdate(c, msg) ==
    IF ~c.active THEN c
    ELSE LET c1 == IF c.focusedField = basicAuthUsernameField /\ ~c.usernameInput.focus
                   THEN [c EXCEPT !.usernameInput = TextInputFocus(@)] ELSE c
         IN CASE msg.str \in {"tab", "down"} -> BasicAuthToggleField(c1)
              [] msg.str \in {"shift+tab", "up"} -> BasicAuthToggleField(c1)
              [] OTHER ->
                   IF c1.focusedField = basicAuthUsernameField
                   THEN [c1 EXCEPT !.usernameInput = TextInputUpdate(@, msg)]
                   ELSE IF c1.focusedField = basicAuthPasswordField
                        THEN [c1 EXCEPT !.passwordInput = TextInputUpdate(@, msg)]
                        ELSE c1

NewTokenAuthDetailsComponent == [active |-> FALSE, tokenInput |-> NewTextInput(0)]

TokenAuthSetActive(c, active) ==
    [c EXCEPT !.active = active,
              !.tokenInput = IF active THEN TextInputFocus(@) ELSE TextInputBlur(@)]

TokenAuthUpdate(c, msg) ==
    IF ~c.active THEN c ELSE [c EXCEPT !.tokenInput = TextInputUpdate(@, msg)]

NewPlaceholderAuthDetails == [active |-> FALSE]

PlaceholderSetActive(c, active) == [c EXCEPT !.active = active]

(***************************************************************************)
(* AuthContainer                                                           *)
(***************************************************************************)
NewAuthContainer ==
    [Height |-> 0, Active |-> FALSE, authSelector |-> NewAuthSelector,
     basicAuthDetails |-> NewBasicAuthDetailsComponent,
     tokenAuthDetails |-> NewTokenAuthDetailsComponent,
     jwtAuthDetails |-> NewPlaceholderAuthDetails,
     apiKeyAuthDetails |-> NewPlaceholderAuthDetails,
     oauth2AuthDetails |-> NewPlaceholderAuthDetails]

AuthSelectedType(ac) == ac.authSelector.options[ac.authSelector.selectedIndex + 1]

AuthSetHeight(ac, height) == [ac EXCEPT !.Height = height]

AuthSetActive(ac, active) ==
    LET selectedType == AuthSelectedType(ac)
    IN [ac EXCEPT
          !.Active = active,
          !.authSelector = AuthSelectorSetActive(@, active),
          !.basicAuthDetails = BasicAuthSetActive(@, active /\ selectedType = "Basic"),
          !.tokenAuthDetails = TokenAuthSetActive(@, active /\ selectedType = "Bearer"),
          !.jwtAuthDetails = PlaceholderSetActive(@, active /\ selectedType = "JWT"),
          !.apiKeyAuthDetails = PlaceholderSetActive(@, active /\ selectedType = "API Key"),
          !.oauth2AuthDetails = PlaceholderSetActive(@, active /\ selectedType = "OAuth2")]

\* The selector sees the key first; SetActive then re-evaluates the detail
\* component, and the detail component of the (new) selection sees the same key.
AuthUpdate(ac, msg) ==
    IF ~ac.Active THEN ac
    ELSE LET a1 == [ac EXCEPT !.authSelector = AuthSelectorUpdate(@, msg)]
             a2 == AuthSetActive(a1, a1.Active)
             selectedType == AuthSelectedType(a2)
         IN CASE selectedType = "Basic" /\ a2.basicAuthDetails.active ->
                   [a2 EXCEPT !.basicAuthDetails = BasicAuthUpdate(@, msg)]
              [] selectedType = "Bearer" /\ a2.tokenAuthDetails.active ->
                   [a2 EXCEPT !.tokenAuthDetails = TokenAuthUpdate(@, msg)]
              [] OTHER -> a2

(***************************************************************************)
(* HeadersInputContainer: the request-headers grid.  Column 0 of a row is  *)
(* a header-name dropdown, column 1 a value field.                         *)
(***************************************************************************)
numHeaderRows == 9

headerOptionsStrings ==
    <<"Empty", "Accept", "Accept-Charset", "Accept-Encoding", "Accept-Language",
      "Authorization", "Cache-Control", "Connection", "Content-Length",
      "Content-MD5", "Content-Type", "Cookie", "Date", "Expect",
      "Host", "Max-Forwards",
      "Origin", "Pragma", "Proxy-Authorization", "Range", "Referer",
      "TE", "Upgrade", "User-Agent", "Via",
      "X-Csrf-Token", "X-Request-ID", "X-Correlation-ID">>

NewHeaderInput ==
    [HeaderSelect |-> headerOptionsStrings, SelectedHeader |-> 0,
     DropdownOpen |-> FALSE, ValueInput |-> NewTextInput(256)]

NewHeadersInputContainer ==
    [inputs |-> [i \in 1..numHeaderRows |-> NewHeaderInput],
     focusedRow |-> 0, focusedInput |-> 0, Active |-> FALSE, height |-> 0]

HeadersSetHeight(h, height) == [h EXCEPT !.height = height]

HeadersFocusCurrentInput(h) ==
    [h EXCEPT !.inputs = [i \in 1..Len(h.inputs) |->
        IF i = h.focusedRow + 1 /\ h.focusedInput = 1
        THEN [h.inputs[i] EXCEPT !.ValueInput = TextInputFocus(@)]
        ELSE [h.inputs[i] EXCEPT !.ValueInput = TextInputBlur(@)]]]

HeadersBlurAllInputs(h) ==
    [h EXCEPT !.inputs = [i \in 1..Len(h.inputs) |->
        [h.inputs[i] EXCEPT !.ValueInput = TextInputBlur(@)]]]

HeadersSetActive(h, active) ==
    LET h1 == [h EXCEPT !.Active = active]
    IN IF active THEN HeadersFocusCurrentInput(h1) ELSE HeadersBlurAllInputs(h1)

\* The key switch of Update: the effect of one key on the focused row.
HeadersKeySwitch(h, keyString) ==
    LET r == h.focusedRow + 1
        currentInput == h.inputs[r]
        n == Len(currentInput.HeaderSelect)
    IN CASE keyString = "up" ->
              IF h.focusedInput = 0 /\ currentInput.DropdownOpen
              THEN [h EXCEPT !.inputs[r].SelectedHeader = (currentInput.SelectedHeader - 1 + n) % n]
              ELSE IF h.focusedRow > 0 THEN [h EXCEPT !.focusedRow = h.focusedRow - 1] ELSE h
         [] keyString = "down" ->
              IF h.focusedInput = 0 /\ currentInput.DropdownOpen
              THEN [h EXCEPT !.inputs[r].SelectedHeader = (currentInput.SelectedHeader + 1) % n]
              ELSE IF h.focusedRow < numHeaderRows - 1
                   THEN [h EXCEPT !.focusedRow = h.focusedRow + 1] ELSE h
         [] keyString = "left" ->
              IF h.focusedInput = 1 THEN [h EXCEPT !.focusedInput = 0] ELSE h
         [] keyString = "right" ->
              IF h.focusedInput = 0 THEN [h EXCEPT !.focusedInput = 1] ELSE h
         [] keyString = "enter" ->
              IF h.focusedInput = 0
              THEN [h EXCEPT !.inputs[r].DropdownOpen = ~currentInput.DropdownOpen]
              ELSE IF h.focusedInput = 1
                   THEN IF currentInput.ValueInput.focus
                        THEN [h EXCEPT !.inputs[r].ValueInput = TextInputBlur(@)]
                        ELSE [h EXCEPT !.inputs[r].ValueInput = TextInputFocus(@)]
                   ELSE h
         [] OTHER -> h

\* An Update that leaves an open dropdown open when the focus moves away.
HeadersUpdateKeepingDropdown(h, msg) ==
    LET r == h.focusedRow + 1
        keyString == msg.str
        isNavKey == keyString \in {"up", "down", "left", "right"}
        isEnterKey == keyString = "enter"
    IN IF h.focusedInput = 1 /\ h.inputs[r].ValueInput.focus /\ ~isNavKey /\ ~isEnterKey
       THEN [h EXCEPT !.inputs[r].ValueInput = TextInputUpdate(@, msg)]
       ELSE HeadersFocusCurrentInput(HeadersKeySwitch(h, keyString))

HeadersUpdate(h, msg) ==
    LET r == h.focusedRow + 1
        keyString == msg.str
        isNavKey == keyString \in {"up", "down", "left", "right"}
        isEnterKey == keyString = "enter"
    IN IF h.focusedInput = 1 /\ h.inputs[r].ValueInput.focus /\ ~isNavKey /\ ~isEnterKey
       THEN [h EXCEPT !.inputs[r].ValueInput = TextInputUpdate(@, msg)]
       ELSE LET prevFocusedRow == h.focusedRow
                prevFocusedInput == h.focusedInput
                prevDropdownOpen == prevFocusedInput = 0 /\ h.inputs[r].DropdownOpen
                h1 == HeadersKeySwitch(h, keyString)
                h2 == IF prevDropdownOpen
                         /\ (h1.focusedRow # prevFocusedRow
                             \/ (h1.focusedRow = prevFocusedRow
                                 /\ h1.focusedInput # prevFocusedInput
                                 /\ prevFocusedInput = 0))
                      THEN [h1 EXCEPT !.inputs[prevFocusedRow + 1].DropdownOpen = FALSE]
                      ELSE h1
            IN HeadersFocusCurrentInput(h2)

HeadersIsDropdownOpen(h) ==
    h.focusedInput = 0 /\ h.focusedRow >= 0 /\ h.focusedRow < Len(h.inputs)
    /\ h.inputs[h.focusedRow + 1].DropdownOpen

(***************************************************************************)
(* bubbles/textarea.Model of the request body: value and focus flag.       *)
(* Typed runes and Enter (a newline) are appended at the cursor, which is  *)
(* kept at the end of the text.                                            *)
(***************************************************************************)
NewTextArea == [value |-> <<>>, focus |-> FALSE]

TextAreaUpdate(ta, msg) ==
    IF ~ta.focus THEN ta
    ELSE CASE msg.str = "enter" -> [ta EXCEPT !.value = Append(@, "\n")]
           [] msg.str \notin {"enter", "up", "down", "left", "right"} /\ msg.runes # <<>> ->
                [ta EXCEPT !.value = @ \o msg.runes]
           [] OTHER -> ta

(***************************************************************************)
(* QueryTab                                                                *)
(***************************************************************************)
NewQueryTab ==
    [InnerTabs |-> <<"Params", "Auth", "Headers", "Body">>, ActiveInnerTab |-> 0,
     Width |-> 0, Height |-> 0, Active |-> FALSE,
     ParamsInput |-> NewParamsContainer, AuthInput |-> NewAuthContainer,
     HeadersInput |-> NewHeadersInputContainer, QueryBodyInput |-> NewTextArea]

QueryInnerTabName(q) == q.InnerTabs[q.ActiveInnerTab + 1]

updateFocus(q) ==
    LET name == QueryInnerTabName(q)
    IN [q EXCEPT
          !.ParamsInput = ParamsSetActive(@, q.Active /\ name = "Params"),
          !.AuthInput = AuthSetActive(@, q.Active /\ name = "Auth"),
          !.QueryBodyInput.focus = q.Active /\ name = "Body",
          !.HeadersInput = HeadersSetActive(@, q.Active /\ name = "Headers")]

QueryTabSetActive(q, active) == updateFocus([q EXCEPT !.Active = active])

QueryTabSetWidth(q, width) ==
    LET actualContentDisplayWidth == Max(width - HorizontalBorderSize, 0)
    IN [q EXCEPT !.Width = width,
                 !.ParamsInput = ParamsSetWidth(@, actualContentDisplayWidth)]

QueryTabSetHeight(q, height) ==
    LET innerContainerHeight == Max(height - 2, 0)
        actualContentDisplayHeight == Max(innerContainerHeight - VerticalBorderSize, 0)
    IN [q EXCEPT !.Height = height,
                 !.ParamsInput = ParamsSetHeight(@, actualContentDisplayHeight),
                 !.AuthInput = AuthSetHeight(@, actualContentDisplayHeight),
                 !.HeadersInput = HeadersSetHeight(@, actualContentDisplayHeight)]

\* SwitchToInnerTab as it would be without the final updateFocus: the new
\* inner widget is not activated.
QueryTabSwitchToInnerTabNoFocus(q, tabIndex) ==
    IF tabIndex >= 0 /\ tabIndex < Len(q.InnerTabs)
    THEN [q EXCEPT !.ActiveInnerTab = tabIndex]
    ELSE q

QueryTabSwitchToInnerTab(q, tabIndex) ==
    IF tabIndex >= 0 /\ tabIndex < Len(q.InnerTabs)
    THEN LET name == QueryInnerTabName(q)
             q1 == CASE name = "Params" ->
                          [q EXCEPT !.ParamsInput = ParamsSetActive(ParamsBlur(@), FALSE)]
                     [] name = "Auth" -> [q EXCEPT !.AuthInput = AuthSetActive(@, FALSE)]
                     [] name = "Body" -> [q EXCEPT !.QueryBodyInput.focus = FALSE]
                     [] name = "Headers" ->
                          [q EXCEPT !.HeadersInput = HeadersSetActive(@, FALSE)]
                     [] OTHER -> q
         IN updateFocus([q1 EXCEPT !.ActiveInnerTab = tabIndex])
    ELSE q

\* NextTab as it would be if it stopped at the last inner tab.
QueryTabNextTabNoWrap(q) ==
    QueryTabSwitchToInnerTab(q, Min(q.ActiveInnerTab + 1, Len(q.InnerTabs) - 1))

QueryTabNextTab(q) ==
    QueryTabSwitchToInnerTab(q, (q.ActiveInnerTab + 1) % Len(q.InnerTabs))

QueryTabPrevTab(q) ==
    QueryTabSwitchToInnerTab(q, (q.ActiveInnerTab - 1 + Len(q.InnerTabs)) % Len(q.InnerTabs))

\* Update for a key message (an inactive QueryTab drops key messages).
QueryTabUpdate(q, msg) ==
    LET currentInnerTab == QueryInnerTabName(q)
    IN IF ~q.Active THEN q
       ELSE CASE msg.str = "tab" -> QueryTabNextTab(q)
              [] msg.str = "shift+tab" -> QueryTabPrevTab(q)
              [] OTHER ->
                   IF currentInnerTab = "Params" /\ q.ParamsInput.Active
                   THEN [q EXCEPT !.ParamsInput = ParamsUpdate(@, msg)]
                   ELSE IF currentInnerTab = "Auth" /\ q.AuthInput.Active
                   THEN [q EXCEPT !.AuthInput = AuthUpdate(@, msg)]
                   ELSE IF currentInnerTab = "Headers" /\ q.HeadersInput.Active
                   THEN [q EXCEPT !.HeadersInput = HeadersUpdate(@, msg)]
                   ELSE IF currentInnerTab = "Body" /\ q.QueryBodyInput.focus
                   THEN [q EXCEPT !.QueryBodyInput = TextAreaUpdate(@, msg)]
                   ELSE q

\* The widget whose Update QueryTab.Update calls with msg.
QueryTabDelivers(q, msg) ==
    LET currentInnerTab == QueryInnerTabName(q)
    IN IF ~q.Active \/ msg.str \in {"tab", "shift+tab"} THEN {}
       ELSE IF currentInnerTab = "Params" /\ q.ParamsInput.Active THEN {"params"}
       ELSE IF currentInnerTab = "Auth" /\ q.AuthInput.Active THEN {"auth"}
       ELSE IF currentInnerTab = "Headers" /\ q.HeadersInput.Active THEN {"headers"}
       ELSE IF currentInnerTab = "Body" /\ q.QueryBodyInput.focus THEN {"body"}
       ELSE {}

(***************************************************************************)
(* Response texts are sequences of one-character strings; "\n" is the line *)
(* break.                                                                  *)
(***************************************************************************)
\* strings.Split(content, "\n")
RECURSIVE Split(_)
Split(s) ==
    IF \A i \in 1..Len(s) : s[i] # "\n" THEN <<s>>
    ELSE LET n == CHOOSE i \in 1..Len(s) :
                     s[i] = "\n" /\ \A j \in 1..(i - 1) : s[j] # "\n"
         IN <<SubSeq(s, 1, n - 1)>> \o Split(SubSeq(s, n + 1, Len(s)))

\* strings.Join(lines, "\n")
RECURSIVE Join(_)
Join(lines) ==
    IF lines = <<>> THEN <<>>
    ELSE IF Len(lines) = 1 THEN lines[1]
    ELSE lines[1] \o <<"\n">> \o Join(Tail(lines))

\* The inner loop as it would be if it ran once only: the first chunk is
\* cut off and the rest of the line is written as it is.
wrapLineOnce(line, width) ==
    SubSeq(line, 1, Min(width, Len(line))) \o <<"\n">>
        \o SubSeq(line, Min(width, Len(line)) + 1, Len(line))

\* The inner loop as it would be with chunks one character too long.
RECURSIVE wrapLineWide(_, _)
wrapLineWide(line, width) ==
    IF Len(line) > width + 1
    THEN SubSeq(line, 1, width + 1) \o <<"\n">>
            \o wrapLineWide(SubSeq(line, width + 2, Len(line)), width)
    ELSE line

\* The inner loop of wrapText: the line from index j on (0-based in the
\* code), in chunks of width characters with a line break between them.
RECURSIVE wrapLine(_, _)
wrapLine(line, width) ==
    LET end == Min(width, Len(line))
    IN IF end < Len(line)
       THEN SubSeq(line, 1, end) \o <<"\n">>
               \o wrapLine(SubSeq(line, end + 1, Len(line)), width)
       ELSE SubSeq(line, 1, end)

\* The outer loop of wrapText over lines[i..].
RECURSIVE wrapLines(_, _)
wrapLines(lines, width) ==
    LET line == Head(lines)
        written == IF Len(line) <= width THEN line ELSE wrapLine(line, width)
    IN IF Len(lines) > 1
       THEN written \o <<"\n">> \o wrapLines(Tail(lines), width)
       ELSE written

wrapText(content, width) ==
    IF width <= 0 THEN content ELSE wrapLines(Split(content), width)

(***************************************************************************)
(* viewport.Model of the bubbles library, as the BodyContainer uses it:    *)
(* the lines of the content, the size and the scroll offset.  View is the  *)
(* text of the visible lines; its padding with blanks is left out.         *)
(***************************************************************************)
ViewportNew(width, height) ==
    [Width |-> width, Height |-> height, YOffset |-> 0, lines |-> <<>>]

maxYOffset(vp) == Max(0, Len(vp.lines) - vp.Height)

ViewportSetYOffset(vp, n) == [vp EXCEPT !.YOffset = Max(0, Min(n, maxYOffset(vp)))]

AtTop(vp) == vp.YOffset <= 0

AtBottom(vp) == vp.YOffset >= maxYOffset(vp)

GotoTop(vp) == IF AtTop(vp) THEN vp ELSE ViewportSetYOffset(vp, 0)

GotoBottom(vp) == ViewportSetYOffset(vp, maxYOffset(vp))

ScrollUp(vp, n) ==
    IF AtTop(vp) \/ n = 0 THEN vp ELSE ViewportSetYOffset(vp, vp.YOffset - n)

ScrollDown(vp, n) ==
    IF AtBottom(vp) \/ n = 0 THEN vp ELSE ViewportSetYOffset(vp, vp.YOffset + n)

ViewportSetContent(vp, s) ==
    LET vp1 == [vp EXCEPT !.lines = Split(s)]
    IN IF vp1.YOffset > Len(vp1.lines) - 1 THEN GotoBottom(vp1) ELSE vp1

visibleLines(vp) ==
    LET top == Max(0, vp.YOffset)
        bottom == Max(top, Min(vp.YOffset + vp.Height, Len(vp.lines)))
    IN SubSeq(vp.lines, top + 1, bottom)

ViewportView(vp) == Join(visibleLines(vp))

\* viewport.Model.Update for a key of the KeyMap NewBodyContainer installs.
\* The page-down binding is "pgdown"; the "pgdn" the container passes on
\* matches no binding.
ViewportUpdate(vp, msg) ==
    CASE msg.str \in {"up", "k"} -> ScrollUp(vp, 1)
      [] msg.str \in {"down", "j"} -> ScrollDown(vp, 1)
      [] msg.str = "pgup" -> ScrollUp(vp, vp.Height)
      [] msg.str = "pgdown" -> ScrollDown(vp, vp.Height)
      [] msg.str = "ctrl+u" -> ScrollUp(vp, vp.Height \div 2)
      [] msg.str = "ctrl+d" -> ScrollDown(vp, vp.Height \div 2)
      [] OTHER -> vp

(***************************************************************************)
(* HeadersContainer                                                        *)
(***************************************************************************)
HeadersPlaceholder ==
    <<"R", "e", "s", "p", "o", "n", "s", "e", " ", "h", "e", "a", "d", "e",
      "r", "s", " ", "w", "i", "l", "l", " ", "b", "e", " ", "d", "i", "s",
      "p", "l", "a", "y", "e", "d", " ", "h", "e", "r", "e", ".">>

NewHeadersContainer ==
    [Content |-> HeadersPlaceholder, rawContent |-> HeadersPlaceholder,
     Width |-> 0, Height |-> 0, Active |-> FALSE]

HeadersContainerSetContent(h, content) ==
    [h EXCEPT !.Content = content, !.rawContent = content]

HeadersContainerSetWidth(h, width) == [h EXCEPT !.Width = width]

HeadersContainerSetHeight(h, height) == [h EXCEPT !.Height = height]

HeadersContainerSetActive(h, active) == [h EXCEPT !.Active = active]

\* Update changes nothing in the container; its clipboard.WriteAll call is
\* HeadersContainerCopies.
HeadersContainerUpdate(h, msg) == h

\* The texts Update hands to clipboard.WriteAll while it handles msg.
HeadersContainerCopies(h, msg) ==
    IF h.Active /\ msg.str = "y" THEN <<h.rawContent>> ELSE <<>>

(***************************************************************************)
(* BodyContainer                                                           *)
(***************************************************************************)
BodyPlaceholder ==
    <<"R", "e", "s", "p", "o", "n", "s", "e", " ", "b", "o", "d", "y", " ",
      "w", "i", "l", "l", " ", "b", "e", " ", "d", "i", "s", "p", "l", "a",
      "y", "e", "d", " ", "h", "e", "r", "e", ".">>

NewBodyContainer ==
    [Viewport |-> ViewportSetContent(ViewportNew(0, 0), BodyPlaceholder),
     rawContent |-> BodyPlaceholder, Width |-> 0, Height |-> 0, Active |-> FALSE]

BodyContainerSetContent(b, content) ==
    LET b1 == [b EXCEPT !.rawContent = content]
    IN IF b1.Width > 0 /\ b1.Height > 0
       THEN LET effectiveWidth == b1.Width - 4
                vp == [b1.Viewport EXCEPT !.Width = b1.Width - 2,
                                          !.Height = b1.Height - 2]
                wrappedContent == wrapText(content, effectiveWidth)
            IN [b1 EXCEPT !.Viewport = GotoTop(ViewportSetContent(vp, wrappedContent))]
       ELSE [b1 EXCEPT !.Viewport = ViewportSetContent(@, content)]

BodyContainerSetWidth(b, width) ==
    LET b1 == [b EXCEPT !.Width = width]
    IN IF width > 2
       THEN LET vp == [b1.Viewport EXCEPT !.Width = width - 2]
                content == ViewportView(vp)
            IN IF content # <<>> /\ content # BodyPlaceholder
               THEN [b1 EXCEPT !.Viewport =
                        ViewportSetContent(vp, wrapText(content, width - 6))]
               ELSE [b1 EXCEPT !.Viewport = vp]
       ELSE b1

BodyContainerSetHeight(b, height) ==
    IF height > 2
    THEN [b EXCEPT !.Height = height + 3, !.Viewport.Height = height + 1]
    ELSE [b EXCEPT !.Height = height + 3]

BodyContainerSetActive(b, active) == [b EXCEPT !.Active = active]

\* Update for a tea.KeyMsg; its clipboard.WriteAll call is BodyContainerCopies.
BodyContainerUpdate(b, msg) ==
    IF ~b.Active THEN b
    ELSE CASE msg.str = "y" -> b
           [] msg.str = "home" -> [b EXCEPT !.Viewport = GotoTop(@)]
           [] msg.str = "end" -> [b EXCEPT !.Viewport = GotoBottom(@)]
           [] msg.str \in {"up", "k", "down", "j", "pgup", "pgdn", "ctrl+u", "ctrl+d"} ->
                [b EXCEPT !.Viewport = ViewportUpdate(@, msg)]
           [] OTHER -> b

\* Update as it would be if it copied what the viewport displays.
BodyContainerCopiesDisplay(b, msg) ==
    IF b.Active /\ msg.str = "y" THEN <<Join(b.Viewport.lines)>> ELSE <<>>

\* The texts Update hands to clipboard.WriteAll while it handles msg.
BodyContainerCopies(b, msg) ==
    IF b.Active /\ msg.str = "y" THEN <<b.rawContent>> ELSE <<>>

(***************************************************************************)
(* ResultTab with its two views                                            *)
(***************************************************************************)
NewResultTab ==
    [InnerTabs |-> <<"Headers", "Body">>, ActiveInnerTab |-> 0, Width |-> 0,
     Height |-> 0, Active |-> FALSE,
     HeadersTab |-> NewHeadersContainer, BodyTab |-> NewBodyContainer]

ResultTabSetWidth(r, width) ==
    [r EXCEPT !.Width = width,
              !.HeadersTab = HeadersContainerSetWidth(@, width - 2),
              !.BodyTab = BodyContainerSetWidth(@, width - 2)]

ResultTabSetHeight(r, height) ==
    LET innerHeight == TruncMul(height, 95, 100)
        contentHeight == innerHeight - 4
    IN [r EXCEPT !.Height = height,
                 !.HeadersTab = HeadersContainerSetHeight(@, contentHeight),
                 !.BodyTab = BodyContainerSetHeight(@, contentHeight)]

ResultTabSetActive(r, active) ==
    IF r.ActiveInnerTab = 0
    THEN [r EXCEPT !.Active = active,
                   !.HeadersTab = HeadersContainerSetActive(@, active),
                   !.BodyTab = BodyContainerSetActive(@, FALSE)]
    ELSE [r EXCEPT !.Active = active,
                   !.HeadersTab = HeadersContainerSetActive(@, FALSE),
                   !.BodyTab = BodyContainerSetActive(@, active)]

ResultTabSwitchToInnerTab(r, tabIndex) ==
    IF tabIndex >= 0 /\ tabIndex < Len(r.InnerTabs)
    THEN IF r.Active
         THEN [r EXCEPT !.ActiveInnerTab = tabIndex,
                        !.HeadersTab = HeadersContainerSetActive(@, tabIndex = 0),
                        !.BodyTab = BodyContainerSetActive(@, tabIndex # 0)]
         ELSE [r EXCEPT !.ActiveInnerTab = tabIndex]
    ELSE r

ResultTabNextTab(r) ==
    ResultTabSwitchToInnerTab(r, (r.ActiveInnerTab + 1) % Len(r.InnerTabs))

ResultTabPrevTab(r) ==
    ResultTabSwitchToInnerTab(r, (r.ActiveInnerTab - 1 + Len(r.InnerTabs)) % Len(r.InnerTabs))

ResultTabUpdate(r, msg) ==
    IF ~r.Active THEN r
    ELSE CASE msg.str = "tab" -> ResultTabNextTab(r)
           [] msg.str = "shift+tab" -> ResultTabPrevTab(r)
           [] OTHER ->
                IF r.ActiveInnerTab = 0
                THEN [r EXCEPT !.HeadersTab = HeadersContainerUpdate(@, msg)]
                ELSE [r EXCEPT !.BodyTab = BodyContainerUpdate(@, msg)]

\* The view whose Update ResultTab.Update calls with msg.
ResultTabDelivers(r, msg) ==
    IF ~r.Active \/ msg.str \in {"tab", "shift+tab"} THEN {}
    ELSE IF r.ActiveInnerTab = 0 THEN {"resultHeaders"}
    ELSE {"resultBody"}

ResultTabCopies(r, msg) ==
    IF ~r.Active \/ msg.str \in {"tab", "shift+tab"} THEN <<>>
    ELSE IF r.ActiveInnerTab = 0 THEN HeadersContainerCopies(r.HeadersTab, msg)
    ELSE BodyContainerCopies(r.BodyTab, msg)

ResultTabSetHeadersContent(r, content) ==
    [r EXCEPT !.HeadersTab = HeadersContainerSetContent(@, content)]

ResultTabSetBodyContent(r, content) ==
    [r EXCEPT !.BodyTab = BodyContainerSetContent(@, content)]

(***************************************************************************)
(* TabsContainer                                                           *)
(***************************************************************************)
NewTabsContainer ==
    [Tabs |-> <<"Query", "Result">>, ActiveTab |-> 0, Width |-> 0, Height |-> 0,
     Active |-> FALSE,
     QueryTab |-> NewQueryTab, ResultTab |-> NewResultTab]

TabsSetWidth(t, width) ==
    [t EXCEPT !.Width = width, !.QueryTab = QueryTabSetWidth(@, width - 2),
              !.ResultTab = ResultTabSetWidth(@, width - 2)]

TabsSetHeight(t, height) ==
    LET queryTabHeight == height - 4 + TruncMul(height - 4, 1, 10)
    IN [t EXCEPT !.Height = height,
                 !.QueryTab = QueryTabSetHeight(@, queryTabHeight),
                 !.ResultTab = ResultTabSetHeight(@, queryTabHeight)]

TabsSetActive(t, active) ==
    [t EXCEPT !.Active = active,
              !.QueryTab = QueryTabSetActive(@, active),
              !.ResultTab = ResultTabSetActive(@, active)]

\* SwitchToTab as it would be if it started the chosen side at its first
\* inner tab.
SwitchToTabReset(t, tabIndex) ==
    IF tabIndex >= 0 /\ tabIndex < Len(t.Tabs)
    THEN [t EXCEPT !.ActiveTab = tabIndex, !.QueryTab.ActiveInnerTab = 0,
                   !.ResultTab.ActiveInnerTab = 0]
    ELSE t

SwitchToTab(t, tabIndex) ==
    IF tabIndex >= 0 /\ tabIndex < Len(t.Tabs) THEN [t EXCEPT !.ActiveTab = tabIndex] ELSE t

TabsUpdate(t, msg) ==
    IF ~t.Active THEN t
    ELSE CASE msg.str = "alt+4" -> SwitchToTab(t, 0)
           [] msg.str = "alt+5" -> SwitchToTab(t, 1)
           [] OTHER ->
                IF t.ActiveTab = 0 THEN [t EXCEPT !.QueryTab = QueryTabUpdate(@, msg)]
                ELSE IF t.ActiveTab = 1 THEN [t EXCEPT !.ResultTab = ResultTabUpdate(@, msg)]
                ELSE t

\* The tab whose Update TabsContainer.Update calls with msg.
TabsDelivers(t, msg) ==
    IF ~t.Active \/ msg.str \in {"alt+4", "alt+5"} THEN {}
    ELSE IF t.ActiveTab = 0 THEN {"query"}
    ELSE IF t.ActiveTab = 1 THEN {"result"}
    ELSE {}

TabsCopies(t, msg) ==
    IF ~t.Active \/ msg.str \in {"alt+4", "alt+5"} \/ t.ActiveTab # 1 THEN <<>>
    ELSE ResultTabCopies(t.ResultTab, msg)

(***************************************************************************)
(* validateURL.  A URL is a sequence of one-character strings.  The        *)
(* pattern is: scheme http or https, "://", a host (a first label of       *)
(* letters and digits, any number of groups made of '-' or '.' followed by *)
(* letters, digits and hyphens, then '.' and at least two letters), an     *)
(* optional port of ':' and one to five digits, an optional path from '/'  *)
(* without '?' and '#', an optional query from '?' without '#', and an     *)
(* optional fragment from '#'.  It is run as a nondeterministic automaton  *)
(* over the part after the scheme.                                         *)
(***************************************************************************)
LowerChars ==
    {"a", "b", "c", "d", "e", "f", "g", "h", "i", "j", "k", "l", "m",
     "n", "o", "p", "q", "r", "s", "t", "u", "v", "w", "x", "y", "z"}

UpperChars ==
    {"A", "B", "C", "D", "E", "F", "G", "H", "I", "J", "K", "L", "M",
     "N", "O", "P", "Q", "R", "S", "T", "U", "V", "W", "X", "Y", "Z"}

DigitChars == <<"0", "1", "2", "3", "4", "5", "6", "7", "8", "9">>

IsLetter(c) == c \in LowerChars \cup UpperChars

IsDigit(c) == \E i \in 1..Len(DigitChars) : DigitChars[i] = c

IsAlnum(c) == IsLetter(c) \/ IsDigit(c)

IsSpace(c) == c \in {" ", "\t", "\n", "\f", "\r"}

DigitValue(c) == (CHOOSE i \in 1..Len(DigitChars) : DigitChars[i] = c) - 1

HasPrefix(s, p) == Len(s) >= Len(p) /\ SubSeq(s, 1, Len(p)) = p

\* After the host the optional port, path, query and fragment may start.
URLTail(c) ==
    CASE c = "/" -> {"path"} [] c = "?" -> {"query"} [] c = "#" -> {"frag"} [] OTHER -> {}

URLStep(q, c) ==
    CASE q = "host0" -> IF IsAlnum(c) THEN {"host1"} ELSE {}
      [] q = "host1" -> IF IsAlnum(c) THEN {"host1"}
                        ELSE IF c = "-" THEN {"grp0"}
                        ELSE IF c = "." THEN {"grp0", "tld0"} ELSE {}
      [] q = "grp0"  -> IF IsAlnum(c) \/ c = "-" THEN {"grp1"} ELSE {}
      [] q = "grp1"  -> IF IsAlnum(c) THEN {"grp1"}
                        ELSE IF c = "-" THEN {"grp1", "grp0"}
                        ELSE IF c = "." THEN {"grp0", "tld0"} ELSE {}
      [] q = "tld0"  -> IF IsLetter(c) THEN {"tld1"} ELSE {}
      [] q = "tld1"  -> IF IsLetter(c) THEN {"tld2"} ELSE {}
      [] q = "tld2"  -> IF IsLetter(c) THEN {"tld2"}
                        ELSE IF c = ":" THEN {"port0"} ELSE URLTail(c)
      [] q = "port0" -> IF IsDigit(c) THEN {"port1"} ELSE {}
      [] q = "port1" -> IF IsDigit(c) THEN {"port2"} ELSE URLTail(c)
      [] q = "port2" -> IF IsDigit(c) THEN {"port3"} ELSE URLTail(c)
      [] q = "port3" -> IF IsDigit(c) THEN {"port4"} ELSE URLTail(c)
      [] q = "port4" -> IF IsDigit(c) THEN {"port5"} ELSE URLTail(c)
      [] q = "port5" -> URLTail(c)
      [] q = "path"  -> IF c \notin {"?", "#"} THEN {"path"} ELSE URLTail(c)
      [] q = "query" -> IF c # "#" THEN {"query"} ELSE {"frag"}
      [] q = "frag"  -> IF c # "\n" THEN {"frag"} ELSE {}
      [] OTHER -> {}

URLAccepting ==
    {"tld2", "port1", "port2", "port3", "port4", "port5", "path", "query", "frag"}

RECURSIVE URLRun(_, _, _)
URLRun(S, s, i) ==
    IF i > Len(s) THEN S
    ELSE URLRun(UNION {URLStep(q, s[i]) : q \in S}, s, i + 1)

URLPatternMatches(url) ==
    LET http == <<"h", "t", "t", "p", ":", "/", "/">>
        https == <<"h", "t", "t", "p", "s", ":", "/", "/">>
        start == IF HasPrefix(url, https) THEN Len(https) + 1
                 ELSE IF HasPrefix(url, http) THEN Len(http) + 1 ELSE 0
    IN start > 0 /\ URLRun({"host0"}, url, start) \cap URLAccepting # {}

\* The first match of :([0-9]+) anywhere in the text, as a pair (from, to)
\* of the digit run, or <<0, 0>> when there is none.
RECURSIVE DigitRunEnd(_, _)
DigitRunEnd(s, i) ==
    IF i + 1 <= Len(s) /\ IsDigit(s[i + 1]) THEN DigitRunEnd(s, i + 1) ELSE i

FirstPortMatch(url) ==
    LET starts == {i \in 1..Len(url) : url[i] = ":" /\ i < Len(url) /\ IsDigit(url[i + 1])}
    IN IF starts = {} THEN <<0, 0>>
       ELSE LET i == CHOOSE j \in starts : \A k \in starts : j <= k
            IN <<i + 1, DigitRunEnd(url, i + 1)>>

RECURSIVE PortNum(_, _, _)
PortNum(s, i, to) ==
    IF i > to THEN 0 ELSE PortNum(s, i, to - 1) * 10 + DigitValue(s[to])

validateURL(url) ==
    IF url = <<>> THEN FALSE
    ELSE IF \E i \in 1..Len(url) : IsSpace(url[i]) THEN FALSE
    ELSE IF ~URLPatternMatches(url) THEN FALSE
    ELSE LET m == FirstPortMatch(url)
         IN IF m[1] = 0 THEN TRUE
            ELSE IF m[2] - m[1] + 1 > 5 THEN FALSE
            ELSE PortNum(url, m[1], m[2]) <= 65535

(***************************************************************************)
(* net/url.Parse, as far as it can reject a text that validateURL accepts: *)
(* a '%' in the path or the fragment that is not followed by two hex       *)
(* digits is an invalid escape.                                            *)
(***************************************************************************)
IsHex(c) == IsDigit(c) \/ c \in {"a", "b", "c", "d", "e", "f", "A", "B", "C", "D", "E", "F"}

urlParseError(rawURL) ==
    LET hashes == {i \in 1..Len(rawURL) : rawURL[i] = "#"}
        hash == IF hashes = {} THEN Len(rawURL) + 1
                ELSE CHOOSE j \in hashes : \A k \in hashes : j <= k
        marks == {i \in 1..(hash - 1) : rawURL[i] = "?"}
        mark == IF marks = {} THEN hash ELSE CHOOSE j \in marks : \A k \in marks : j <= k
    IN \E i \in 1..Len(rawURL) :
          /\ rawURL[i] = "%"
          /\ i < mark \/ i > hash
          /\ ~(i + 2 <= Len(rawURL) /\ IsHex(rawURL[i + 1]) /\ IsHex(rawURL[i + 2]))

(***************************************************************************)
(* ui.App.  A handler yields the new App value and the commands it hands   *)
(* to the runtime: "quit", "tick" (the spinner's next tick) and "request"  *)
(* (the asynchronous HTTP request).                                        *)
(***************************************************************************)
\* The key map as it would be with Ctrl+C as the only quit key.
DefaultKeyMapCtrlC ==
    [FocusMethod |-> {"alt+1"}, FocusURL |-> {"alt+2"}, FocusQuery |-> {"alt+3"},
     FocusResult |-> {"alt+4"}, FocusSubmit |-> {"alt+5"},
     Next |-> {"tab"}, Prev |-> {"shift+tab"}, Quit |-> {"ctrl+c"}]

DefaultKeyMap ==
    [FocusMethod |-> {"alt+1"}, FocusURL |-> {"alt+2"}, FocusQuery |-> {"alt+3"},
     FocusResult |-> {"alt+4"}, FocusSubmit |-> {"alt+5"},
     Next |-> {"tab"}, Prev |-> {"shift+tab"}, Quit |-> {"ctrl+c", "esc"}]

\* The runes some terminals send for Alt+1 .. Alt+5, named by code point:
\* inverted exclamation mark, trade mark sign, pound sign, cent sign, infinity.
AltRuneTargets ==
    [r \in {"U+00A1", "U+2122", "U+00A3", "U+00A2", "U+221E"} |->
        CASE r = "U+00A1" -> "focusMethod" [] r = "U+2122" -> "focusURL"
          [] r = "U+00A3" -> "focusQuery" [] r = "U+00A2" -> "focusResult"
          [] OTHER -> "focusSubmit"]

NewApp ==
    [methodSelector |-> NewMethodSelector, urlInput |-> NewURLInput,
     submitButton |-> NewSubmitButton, tabContainer |-> NewTabsContainer,
     toast |-> NewToast, spinner |-> NewSpinner, width |-> 0, height |-> 0]

Result(a, cmds) == [app |-> a, cmds |-> cmds]

\* setFocus as it would be without the reset of the focusable components.
setFocusKeep(a, target) ==
    CASE target = "focusMethod" ->
           [a EXCEPT !.methodSelector = MethodSelectorSetActive(@, TRUE)]
      [] target = "focusURL" ->
           [a EXCEPT !.urlInput = URLInputSetActive(@, TRUE)]
      [] target = "focusQuery" ->
           [a EXCEPT !.tabContainer = TabsSetActive(SwitchToTab(@, 0), TRUE)]
      [] target = "focusResult" ->
           [a EXCEPT !.tabContainer = TabsSetActive(SwitchToTab(@, 1), TRUE)]
      [] OTHER -> a

setFocus(a, target) ==
    LET a0 == [a EXCEPT !.methodSelector = MethodSelectorSetActive(@, FALSE),
                        !.urlInput = URLInputSetActive(@, FALSE),
                        !.submitButton = SubmitButtonSetActive(@, FALSE),
                        !.tabContainer = TabsSetActive(@, FALSE)]
    IN CASE target = "focusMethod" ->
              [a0 EXCEPT !.methodSelector = MethodSelectorSetActive(@, TRUE)]
         [] target = "focusURL" ->
              [a0 EXCEPT !.urlInput = URLInputSetActive(@, TRUE)]
         [] target = "focusQuery" ->
              [a0 EXCEPT !.tabContainer = TabsSetActive(SwitchToTab(@, 0), TRUE)]
         [] target = "focusResult" ->
              [a0 EXCEPT !.tabContainer = TabsSetActive(SwitchToTab(@, 1), TRUE)]
         [] OTHER -> a0

handleSubmit(a) ==
    LET rawURL == URLInputGetText(a.urlInput)
    IN IF ~validateURL(rawURL)
       THEN Result([a EXCEPT
                !.toast = ToastShow(@, <<"Invalid URL: The Provided URL is not valid.">>),
                !.methodSelector = MethodSelectorSetActive(@, FALSE),
                !.urlInput = URLInputSetActive(@, TRUE),
                !.submitButton = SubmitButtonSetActive(@, FALSE),
                !.tabContainer = TabsSetActive(@, FALSE)], {})
       ELSE LET a1 == [a EXCEPT
                          !.methodSelector = MethodSelectorSetActive(@, FALSE),
                          !.urlInput = URLInputSetActive(@, FALSE),
                          !.submitButton = SubmitButtonSetActive(@, FALSE),
                          !.spinner = SpinnerShow(@)]
            IN IF urlParseError(rawURL)
               THEN Result([a1 EXCEPT
                        !.toast = ToastShow(@, <<"Error building URL: ", "invalid URL escape">>),
                        !.spinner = SpinnerHide(@),
                        !.urlInput = URLInputSetActive(@, TRUE)], {})
               ELSE Result(a1, {"tick", "request"})

handleKeyMsg(a, msg) ==
    IF a.toast.Visible /\ msg.str = "enter"
    THEN Result([a EXCEPT
             !.toast = ToastHide(@),
             !.methodSelector = MethodSelectorSetActive(@, FALSE),
             !.urlInput = URLInputSelectAllText(URLInputSetActive(@, TRUE)),
             !.submitButton = SubmitButtonSetActive(@, FALSE),
             !.tabContainer = TabsSetActive(@, FALSE)], {})
    ELSE IF Len(msg.runes) = 1 /\ msg.runes[1] \in DOMAIN AltRuneTargets
    THEN IF AltRuneTargets[msg.runes[1]] = "focusSubmit" THEN handleSubmit(a)
         ELSE Result(setFocus(a, AltRuneTargets[msg.runes[1]]), {})
    ELSE CASE msg.str \in DefaultKeyMap.Quit -> Result(a, {"quit"})
           [] msg.str \in DefaultKeyMap.FocusMethod -> Result(setFocus(a, "focusMethod"), {})
           [] msg.str \in DefaultKeyMap.FocusURL -> Result(setFocus(a, "focusURL"), {})
           [] msg.str \in DefaultKeyMap.FocusSubmit -> handleSubmit(a)
           [] msg.str \in DefaultKeyMap.FocusQuery -> Result(setFocus(a, "focusQuery"), {})
           [] msg.str \in DefaultKeyMap.FocusResult -> Result(setFocus(a, "focusResult"), {})
           [] msg.str \in DefaultKeyMap.Next \cup DefaultKeyMap.Prev ->
                IF a.tabContainer.Active
                THEN Result([a EXCEPT !.tabContainer = TabsUpdate(@, msg)], {})
                ELSE Result(a, {})
           [] OTHER ->
                IF a.methodSelector.Active
                THEN Result([a EXCEPT !.methodSelector = MethodSelectorUpdate(@, msg)], {})
                ELSE IF a.urlInput.Active
                THEN LET a1 == [a EXCEPT !.urlInput = URLInputUpdate(@, msg)]
                     IN IF msg.str = "enter" THEN handleSubmit(a1) ELSE Result(a1, {})
                ELSE IF msg.str \notin {"up", "down", "left", "right"} /\ a.submitButton.Active
                THEN IF SubmitButtonUpdate(a.submitButton, msg)
                     THEN handleSubmit(a) ELSE Result(a, {})
                ELSE IF a.tabContainer.Active
                THEN Result([a EXCEPT !.tabContainer = TabsUpdate(@, msg)], {})
                ELSE Result(a, {})

\* The top-level widgets whose Update handleKeyMsg calls with msg.
handleKeyMsgDelivers(a, msg) ==
    IF a.toast.Visible /\ msg.str = "enter" THEN {}
    ELSE IF Len(msg.runes) = 1 /\ msg.runes[1] \in DOMAIN AltRuneTargets THEN {}
    ELSE CASE msg.str \in DefaultKeyMap.Quit \cup DefaultKeyMap.FocusMethod
                          \cup DefaultKeyMap.FocusURL \cup DefaultKeyMap.FocusSubmit
                          \cup DefaultKeyMap.FocusQuery \cup DefaultKeyMap.FocusResult -> {}
           [] msg.str \in DefaultKeyMap.Next \cup DefaultKeyMap.Prev ->
                IF a.tabContainer.Active THEN {"tabs"} ELSE {}
           [] OTHER ->
                IF a.methodSelector.Active THEN {"method"}
                ELSE IF a.urlInput.Active THEN {"url"}
                ELSE IF msg.str \notin {"up", "down", "left", "right"} /\ a.submitButton.Active
                THEN {"submit"}
                ELSE IF a.tabContainer.Active THEN {"tabs"}
                ELSE {}

\* The texts handed to clipboard.WriteAll while handleKeyMsg handles msg.
handleKeyMsgCopies(a, msg) ==
    IF "tabs" \in handleKeyMsgDelivers(a, msg) THEN TabsCopies(a.tabContainer, msg)
    ELSE <<>>

\* msg.Error is <<>> for nil and a one-element sequence holding the text
\* of the error otherwise.
handleRequestCompleteMsg(a, msg) ==
    LET a1 == [a EXCEPT !.spinner = SpinnerHide(@)]
        a2 == IF msg.Error # <<>>
              THEN [a1 EXCEPT
                      !.toast = ToastShow(@, <<"Error: ", msg.Error[1]>>),
                      !.methodSelector = MethodSelectorSetActive(@, FALSE),
                      !.urlInput = URLInputSetActive(@, TRUE),
                      !.submitButton = SubmitButtonSetActive(@, FALSE),
                      !.tabContainer = TabsSetActive(@, FALSE)]
              ELSE a1
        t1 == [a2.tabContainer EXCEPT
                 !.ResultTab = ResultTabSetBodyContent(
                                   ResultTabSetHeadersContent(@, msg.Headers), msg.Body)]
        t2 == SwitchToTab(TabsSetActive(t1, TRUE), 1)
    IN [a2 EXCEPT !.tabContainer =
           [t2 EXCEPT !.ResultTab = ResultTabSetActive(ResultTabSwitchToInnerTab(@, 0), TRUE)]]

handleWindowSizeMsg(a, w, h) ==
    LET availableWidth == TruncMul(w, 9, 10)
        methodBoxWidth == TruncMul(availableWidth, 2, 10)
        buttonWidth == TruncMul(availableWidth, 15, 100)
        urlBoxWidth == availableWidth - methodBoxWidth - buttonWidth - 4
        tabContainerWidth == availableWidth
        tabContainerHeight == TruncMul(h - 15, 85, 100)
    IN [a EXCEPT !.width = w, !.height = h,
                 !.urlInput = URLInputSetWidth(@, urlBoxWidth),
                 !.tabContainer = TabsSetHeight(TabsSetWidth(@, tabContainerWidth),
                                                tabContainerHeight)]

(***************************************************************************)
(* The running program: the App value, the commands the runtime still has  *)
(* to deliver (outstanding requests, pending spinner ticks) and whether    *)
(* tea.Quit has ended the program.                                         *)
(***************************************************************************)
VARIABLES methodSelector, urlInput, submitButton, tabContainer, toast, spinner,
          width, height, inflight, ticks, quit, clipboard, wrapCall, validateCall,
          rowsCall, dataCall

vars == <<methodSelector, urlInput, submitButton, tabContainer, toast, spinner,
          width, height, inflight, ticks, quit, clipboard, wrapCall,
          validateCall, rowsCall, dataCall>>

App ==
    [methodSelector |-> methodSelector, urlInput |-> urlInput,
     submitButton |-> submitButton, tabContainer |-> tabContainer,
     toast |-> toast, spinner |-> spinner, width |-> width, height |-> height]

\* Bounds of the exploration.
MaxInflight == 2

MaxTicks == 2

MaxURLLen == 13

MaxBodyLen == 1

MaxFieldLen == 0

MaxDropRows == 1

AppIs(a) ==
    /\ methodSelector = a.methodSelector /\ urlInput = a.urlInput
    /\ submitButton = a.submitButton /\ tabContainer = a.tabContainer
    /\ toast = a.toast /\ spinner = a.spinner
    /\ width = a.width /\ height = a.height

AppBecomes(a) ==
    /\ methodSelector' = a.methodSelector /\ urlInput' = a.urlInput
    /\ submitButton' = a.submitButton /\ tabContainer' = a.tabContainer
    /\ toast' = a.toast /\ spinner' = a.spinner
    /\ width' = a.width /\ height' = a.height

\* The texts stay within the bounds of the exploration.
TextBounded(a) ==
    LET q == a.tabContainer.QueryTab
    IN /\ Len(a.urlInput.TextInput.value) <= MaxURLLen
       /\ Len(q.QueryBodyInput.value) <= MaxBodyLen
       /\ \A i \in 1..numParamRows :
             /\ Len(q.ParamsInput.Inputs[i].NameInput.value) <= MaxFieldLen
             /\ Len(q.ParamsInput.Inputs[i].ValueInput.value) <= MaxFieldLen
       /\ \A i \in 1..numHeaderRows :
             Len(q.HeadersInput.inputs[i].ValueInput.value) <= MaxFieldLen
       /\ Len(q.AuthInput.basicAuthDetails.usernameInput.value) <= MaxFieldLen
       /\ Len(q.AuthInput.basicAuthDetails.passwordInput.value) <= MaxFieldLen
       /\ Len(q.AuthInput.tokenAuthDetails.tokenInput.value) <= MaxFieldLen

\* Header names are chosen in the first MaxDropRows rows only.
DropRowsBounded(a) ==
    \A i \in (MaxDropRows + 1)..numHeaderRows :
       LET row == a.tabContainer.QueryTab.HeadersInput.inputs[i]
       IN row.SelectedHeader = 0 /\ ~row.DropdownOpen

\* A call of wrapText: its arguments, how far it got ("idle": no call,
\* "called", "returned", "rewrapped": the result wrapped again at the same
\* width) and the two results.
NoWrapCall ==
    [content |-> <<>>, width |-> 0, pc |-> "idle", out |-> <<>>, again |-> <<>>]

\* A call of validateURL: the port digits and the rest (path, query,
\* fragment) the URL was put together from, the URL, how far the call got
\* ("idle": no call, "called", "returned") and the result.
NoValidateCall ==
    [port |-> <<>>, rest |-> <<>>, url |-> <<>>, pc |-> "idle", valid |-> FALSE]

\* A call of getNumDisplayableInputRows on the params grid: how far it got
\* ("idle": no call, "called", "returned") and the result.
NoRowsCall == [pc |-> "idle", rows |-> 0]

\* A call of GetParams on the params grid and of GetHeaders on the headers
\* grid: how far it got ("idle": no call, "called", "returned") and the two
\* maps returned.
NoDataCall == [pc |-> "idle", params |-> <<>>, headers |-> <<>>]

\* Program start: NewApp, nothing outstanding, nothing copied.
Started(a) ==
    /\ AppIs(a)
    /\ inflight = 0 /\ ticks = 0 /\ quit = FALSE
    /\ clipboard = <<>> /\ wrapCall = NoWrapCall /\ validateCall = NoValidateCall
    /\ rowsCall = NoRowsCall /\ dataCall = NoDataCall

\* App.Update for a tea.KeyMsg.
KeyPress(msg) ==
    /\ ~quit
    /\ \E r \in {handleKeyMsg(App, msg)} :
          /\ TextBounded(r.app)
          /\ DropRowsBounded(r.app)
          /\ "request" \in r.cmds => inflight < MaxInflight
          /\ "tick" \in r.cmds => ticks < MaxTicks
          /\ AppBecomes(r.app)
          /\ inflight' = IF "request" \in r.cmds THEN inflight + 1 ELSE inflight
          /\ ticks' = IF "tick" \in r.cmds THEN ticks + 1 ELSE ticks
          /\ quit' = ("quit" \in r.cmds)
    /\ \E copies \in {handleKeyMsgCopies(App, msg)} :
          clipboard' = IF copies = <<>> THEN clipboard ELSE copies[Len(copies)]
    /\ UNCHANGED <<wrapCall, validateCall, rowsCall, dataCall>>

\* App.Update for the RequestCompleteMsg of an outstanding request.
RequestComplete(msg) ==
    /\ ~quit
    /\ inflight > 0
    /\ \E a \in {handleRequestCompleteMsg(App, msg)} : AppBecomes(a)
    /\ inflight' = inflight - 1
    /\ UNCHANGED <<ticks, quit, clipboard, wrapCall, validateCall, rowsCall, dataCall>>

\* App.Update for a SpinnerTickMsg: a visible spinner advances and asks
\* for the next tick, a hidden one lets the tick chain end.
SpinnerTick ==
    /\ ~quit
    /\ ticks > 0
    /\ spinner' = SpinnerUpdate(spinner)
    /\ ticks' = IF "tick" \in SpinnerUpdateCmds(spinner) THEN ticks ELSE ticks - 1
    /\ UNCHANGED <<methodSelector, urlInput, submitButton, tabContainer, toast,
                   width, height, inflight, quit, clipboard, wrapCall, validateCall,
                   rowsCall, dataCall>>

\* App.Update for a tea.WindowSizeMsg.
WindowSize(w, h) ==
    /\ ~quit
    /\ \E a \in {handleWindowSizeMsg(App, w, h)} : AppBecomes(a)
    /\ UNCHANGED <<inflight, ticks, quit, clipboard, wrapCall, validateCall, rowsCall, dataCall>>

(***************************************************************************)
(* Focus specification: the hotkeys, the tab keys, Enter, pasted URL       *)
(* texts and the completion of requests, from program start.               *)
(***************************************************************************)
URLValid == <<"h", "t", "t", "p", ":", "/", "/", "a", ".", "b", "c">>

URLInvalid == <<"n", "o", "t", "a", "u", "r", "l">>

URLBadEscape == <<"h", "t", "t", "p", ":", "/", "/", "a", ".", "b", "c", "/", "%">>

FocusKeys ==
    {Key(k) : k \in {"alt+1", "alt+2", "alt+3", "alt+4", "alt+5", "tab", "shift+tab", "enter"}}
    \cup {Paste(URLValid), Paste(URLInvalid), Paste(URLBadEscape)}

CompletionMsgs ==
    {[Headers |-> <<"A", ":", "b">>, Body |-> <<"{", "}">>, Error |-> <<>>],
     [Headers |-> <<>>, Body |-> <<>>, Error |-> <<"connection refused">>]}

Init == Started(NewApp)

Next ==
    \/ \E msg \in FocusKeys : KeyPress(msg)
    \/ \E msg \in CompletionMsgs : RequestComplete(msg)

Spec == Init /\ [][Next]_vars

(***************************************************************************)
(* Focus claims                                                            *)
(***************************************************************************)
\* The leaf widgets under the tab container that are active, by name.
ActiveTabLeaves(t) ==
    {n \in {"params", "auth", "headers", "body", "resultHeaders", "resultBody"} :
        CASE n = "params" -> t.QueryTab.ParamsInput.Active
          [] n = "auth" -> t.QueryTab.AuthInput.Active
          [] n = "headers" -> t.QueryTab.HeadersInput.Active
          [] n = "body" -> t.QueryTab.QueryBodyInput.focus
          [] n = "resultHeaders" -> t.ResultTab.HeadersTab.Active
          [] OTHER -> t.ResultTab.BodyTab.Active}

\* All active leaf widgets of the application.
ActiveLeaves(a) ==
    ActiveTabLeaves(a.tabContainer)
    \cup (IF a.methodSelector.Active THEN {"method"} ELSE {})
    \cup (IF a.urlInput.Active THEN {"url"} ELSE {})

\* C1 (exclusive focus): in every reachable state at most one leaf widget
\* (method selector, URL field, a grid, the auth pane, the body text area, a
\* response view) is active, and no leaf under the tab container is active
\* while the tab container is inactive.
C1_ExclusiveFocus ==
    /\ Cardinality(ActiveLeaves(App)) <= 1
    /\ ~tabContainer.Active => ActiveTabLeaves(tabContainer) = {}

\* The state C1 is refuted by: the Query tab's grid and the Result tab's
\* Headers view are active together.
C1_TwoLeaves ==
    /\ tabContainer.Active
    /\ tabContainer.QueryTab.ParamsInput.Active
    /\ tabContainer.ResultTab.HeadersTab.Active

\* The direct children of each container that are active, by name.
TabsActiveChildren(t) ==
    (IF t.QueryTab.Active THEN {"Query"} ELSE {})
    \cup (IF t.ResultTab.Active THEN {"Result"} ELSE {})

QueryActiveChildren(q) ==
    (IF q.ParamsInput.Active THEN {"Params"} ELSE {})
    \cup (IF q.AuthInput.Active THEN {"Auth"} ELSE {})
    \cup (IF q.HeadersInput.Active THEN {"Headers"} ELSE {})
    \cup (IF q.QueryBodyInput.focus THEN {"Body"} ELSE {})

ResultActiveChildren(r) ==
    (IF r.HeadersTab.Active THEN {"Headers"} ELSE {})
    \cup (IF r.BodyTab.Active THEN {"Body"} ELSE {})

AuthActiveChildren(ac) ==
    (IF ac.authSelector.active THEN {"selector"} ELSE {})
    \cup (IF ac.basicAuthDetails.active THEN {"Basic"} ELSE {})
    \cup (IF ac.tokenAuthDetails.active THEN {"Bearer"} ELSE {})
    \cup (IF ac.jwtAuthDetails.active THEN {"JWT"} ELSE {})
    \cup (IF ac.apiKeyAuthDetails.active THEN {"API Key"} ELSE {})
    \cup (IF ac.oauth2AuthDetails.active THEN {"OAuth2"} ELSE {})

\* C2 (SetActive contract): on every container of every reachable state,
\* SetActive(true) leaves exactly one direct child active, the one the
\* container's selection pointer designates, and SetActive(false) leaves none.
C2_SetActiveContract ==
    LET t == tabContainer
        q == t.QueryTab
        r == t.ResultTab
        ac == q.AuthInput
    IN /\ TabsActiveChildren(TabsSetActive(t, TRUE)) = {t.Tabs[t.ActiveTab + 1]}
       /\ TabsActiveChildren(TabsSetActive(t, FALSE)) = {}
       /\ QueryActiveChildren(QueryTabSetActive(q, TRUE)) = {QueryInnerTabName(q)}
       /\ QueryActiveChildren(QueryTabSetActive(q, FALSE)) = {}
       /\ ResultActiveChildren(ResultTabSetActive(r, TRUE)) = {r.InnerTabs[r.ActiveInnerTab + 1]}
       /\ ResultActiveChildren(ResultTabSetActive(r, FALSE)) = {}
       /\ AuthActiveChildren(AuthSetActive(ac, TRUE)) = {AuthSelectedType(ac)}
       /\ AuthActiveChildren(AuthSetActive(ac, FALSE)) = {}

\* The state C2 is refuted by: the tab container has just been activated
\* and both of its tabs are active.
C2_BothTabsActive ==
    /\ tabContainer.Active
    /\ TabsActiveChildren(tabContainer) = {"Query", "Result"}

\* The top-level widgets that are active, by name.
ActiveTopLevel(a) ==
    (IF a.methodSelector.Active THEN {"method"} ELSE {})
    \cup (IF a.urlInput.Active THEN {"url"} ELSE {})
    \cup (IF a.submitButton.Active THEN {"submit"} ELSE {})
    \cup (IF a.tabContainer.Active THEN {"tabs"} ELSE {})

\* C3 (single top-level focus): in every reachable state at most one of the
\* method selector, the URL field, the submit button and the tab container is
\* active, also when a request completes after the focus has moved.
C3_SingleTopLevelFocus == Cardinality(ActiveTopLevel(App)) <= 1

\* The state C3 is refuted by: a request has completed and the URL field
\* and the tab container are active together.
C3_URLAndTabsActive ==
    /\ urlInput.Active /\ tabContainer.Active
    /\ tabContainer.ActiveTab = 1

(***************************************************************************)
(* Selector specification: one of the three dropdowns has the focus (the   *)
(* method selector after alt+1, the auth-type selector after alt+3 tab,    *)
(* the header-name dropdown of the headers grid after alt+3 tab tab) and   *)
(* receives Enter, Up, Down and Esc through the root.                      *)
(***************************************************************************)
RECURSIVE PressAll(_, _)
PressAll(a, keys) ==
    IF keys = <<>> THEN a
    ELSE CHOOSE r \in {PressAll(b, Tail(keys)) :
                           b \in {handleKeyMsg(a, Key(Head(keys))).app}} : TRUE

MethodFocused == PressAll(NewApp, <<"alt+1">>)

ParamsFocused == PressAll(NewApp, <<"alt+3">>)

AuthFocused == PressAll(NewApp, <<"alt+3", "tab">>)

HeadersFocused == PressAll(NewApp, <<"alt+3", "tab", "tab">>)

SelKeys == {Key(k) : k \in {"enter", "up", "down", "esc"}}

InitSel == \E a \in {MethodFocused, AuthFocused, HeadersFocused} : Started(a)

NextSel == \E msg \in SelKeys : KeyPress(msg)

SpecSel == InitSel /\ [][NextSel]_vars

\* A selector fed a sequence of keys.
RECURSIVE MethodRun(_, _)
MethodRun(m, keys) ==
    IF keys = <<>> THEN m
    ELSE MethodRun(MethodSelectorUpdate(m, Key(Head(keys))), Tail(keys))

RECURSIVE AuthRun(_, _)
AuthRun(as, keys) ==
    IF keys = <<>> THEN as
    ELSE AuthRun(AuthSelectorUpdate(as, Key(Head(keys))), Tail(keys))

RECURSIVE HeadersRun(_, _)
HeadersRun(h, keys) ==
    IF keys = <<>> THEN h
    ELSE HeadersRun(HeadersUpdate(h, Key(Head(keys))), Tail(keys))

\* Bounds of the key sequences the selector claims quantify over.
MaxNav == 3

MaxSteps == 7

MaxOptions == 3

\* All sequences of at most MaxNav next ("down") and prev ("up") keys.
NavSeqs == UNION {[1..k -> {"down", "up"}] : k \in 0..MaxNav}

Repeat(key, k) == [j \in 1..k |-> key]

FocusedHeaderRow(h) == h.inputs[h.focusedRow + 1]

\* C4 (selector commit law): for every dropdown (method, auth type, header
\* name) that is active and closed, Open, any next/prev keys, Select ends
\* Closed with selectedIndex the option highlighted at Select; and Open,
\* any next/prev keys, Close (esc) leaves selectedIndex as it was before Open.
C4_SelectorCommitLaw ==
    LET m == methodSelector
        as == tabContainer.QueryTab.AuthInput.authSelector
        h == tabContainer.QueryTab.HeadersInput
    IN /\ m.Active /\ ~m.DropdownOpen =>
            \A w \in NavSeqs :
               LET nav == MethodRun(m, <<"enter">> \o w)
                   sel == MethodRun(nav, <<"enter">>)
                   cls == MethodRun(nav, <<"esc">>)
               IN /\ ~sel.DropdownOpen /\ sel.SelectedMethod = nav.SelectedMethod
                  /\ cls.SelectedMethod = m.SelectedMethod
       /\ as.active /\ ~as.isOpen =>
            \A w \in NavSeqs :
               LET nav == AuthRun(as, <<"enter">> \o w)
                   sel == AuthRun(nav, <<"enter">>)
                   cls == AuthRun(nav, <<"esc">>)
               IN /\ ~sel.isOpen /\ sel.selectedIndex = nav.highlightedIndex
                  /\ cls.selectedIndex = as.selectedIndex
       /\ h.Active /\ h.focusedInput = 0 /\ ~FocusedHeaderRow(h).DropdownOpen =>
            \A w \in NavSeqs :
               LET nav == HeadersRun(h, <<"enter">> \o w)
                   sel == HeadersRun(nav, <<"enter">>)
                   cls == HeadersRun(nav, <<"esc">>)
               IN /\ ~FocusedHeaderRow(sel).DropdownOpen
                  /\ FocusedHeaderRow(sel).SelectedHeader = FocusedHeaderRow(nav).SelectedHeader
                  /\ FocusedHeaderRow(cls).SelectedHeader = FocusedHeaderRow(h).SelectedHeader

\* The state C4 is refuted by: the method dropdown is open and navigation
\* has already replaced the selection made before Open.
C4_MethodCommittedWhileOpen ==
    /\ methodSelector.Active /\ methodSelector.DropdownOpen
    /\ methodSelector.SelectedMethod = 1

\* The auth-type selector alone keeps the commit law.
AuthSelectorCommitLaw ==
    LET as == tabContainer.QueryTab.AuthInput.authSelector
    IN as.active /\ ~as.isOpen =>
          \A w \in NavSeqs :
             LET nav == AuthRun(as, <<"enter">> \o w)
                 sel == AuthRun(nav, <<"enter">>)
                 cls == AuthRun(nav, <<"esc">>)
             IN /\ ~sel.isOpen /\ sel.selectedIndex = nav.highlightedIndex
                /\ ~cls.isOpen /\ cls.selectedIndex = as.selectedIndex

\* Selectors over the first n options, closed, with option i selected.
MethodSelectorWith(n, i) ==
    [NewMethodSelector EXCEPT !.Methods = SubSeq(@, 1, n), !.SelectedMethod = i,
                              !.Active = TRUE]

AuthSelectorWith(n, i) ==
    [NewAuthSelector EXCEPT !.options = SubSeq(@, 1, n), !.selectedIndex = i,
                            !.highlightedIndex = i, !.active = TRUE]

\* Open, k times next (or prev), Select on a closed method selector: it ends
\* Closed on (i + k) mod n (or (i - k) mod n), never leaving [0, n).
MethodTransitionLaw(m) ==
    LET n == Len(m.Methods)
        i == m.SelectedMethod
    IN \A k \in 0..MaxSteps :
          LET fwd == MethodRun(m, <<"enter">> \o Repeat("down", k))
              bwd == MethodRun(m, <<"enter">> \o Repeat("up", k))
              fsel == MethodRun(fwd, <<"enter">>)
              bsel == MethodRun(bwd, <<"enter">>)
          IN /\ fwd.SelectedMethod \in 0..(n - 1) /\ bwd.SelectedMethod \in 0..(n - 1)
             /\ ~fsel.DropdownOpen /\ fsel.SelectedMethod = (i + k) % n
             /\ ~bsel.DropdownOpen /\ bsel.SelectedMethod = (i - k) % n

AuthTransitionLaw(as) ==
    LET n == Len(as.options)
        i == as.selectedIndex
    IN \A k \in 0..MaxSteps :
          LET fwd == AuthRun(as, <<"enter">> \o Repeat("down", k))
              bwd == AuthRun(as, <<"enter">> \o Repeat("up", k))
              fsel == AuthRun(fwd, <<"enter">>)
              bsel == AuthRun(bwd, <<"enter">>)
          IN /\ fwd.highlightedIndex \in 0..(n - 1) /\ bwd.highlightedIndex \in 0..(n - 1)
             /\ fwd.selectedIndex = i /\ bwd.selectedIndex = i
             /\ ~fsel.isOpen /\ fsel.selectedIndex = (i + k) % n
             /\ ~bsel.isOpen /\ bsel.selectedIndex = (i - k) % n

\* The law on selectors over 1 .. MaxOptions options, and the example of the
\* three options GET, POST, PUT.
SmallSelectorsTransitionLaw ==
    /\ \A n \in 1..MaxOptions : \A i \in 0..(n - 1) :
          /\ MethodTransitionLaw(MethodSelectorWith(n, i))
          /\ AuthTransitionLaw(AuthSelectorWith(n, i))
    /\ MethodRun(MethodSelectorWith(3, 0), <<"enter", "down", "down", "enter">>)
          .SelectedMethod = 2

\* C5 (selector transition function): from Closed with selectedIndex i over
\* n options, open, next k times, select yields Closed and selectedIndex
\* (i + k) mod n; with prev, (i - k) mod n; the indices stay in [0, n), also
\* for n = 1.  Checked on the method and auth-type selectors of every
\* reachable state and on selectors over 1 .. MaxOptions options; with
\* options GET, POST, PUT and i = 0, open, next, next, select gives 2.
C5_SelectorTransition ==
    LET m == methodSelector
        as == tabContainer.QueryTab.AuthInput.authSelector
    IN /\ m.SelectedMethod \in 0..(Len(m.Methods) - 1)
       /\ as.selectedIndex \in 0..(Len(as.options) - 1)
       /\ as.highlightedIndex \in 0..(Len(as.options) - 1)
       /\ m.Active /\ ~m.DropdownOpen => MethodTransitionLaw(m)
       /\ as.active /\ ~as.isOpen => AuthTransitionLaw(as)
       /\ SmallSelectorsTransitionLaw

\* The auth-type selector has wrapped backwards from None to the last option
\* and committed it; the method selector has committed PUT.
C5_Wrapped ==
    \/ /\ tabContainer.QueryTab.AuthInput.authSelector.active
       /\ ~tabContainer.QueryTab.AuthInput.authSelector.isOpen
       /\ tabContainer.QueryTab.AuthInput.authSelector.selectedIndex = 5
    \/ /\ methodSelector.Active /\ ~methodSelector.DropdownOpen
       /\ methodSelector.SelectedMethod = 2

(***************************************************************************)
(* Grid specification: the terminal has been sized, then the params grid   *)
(* (alt+3) or the headers grid (alt+3, tab, tab) has the focus and         *)
(* receives the arrow keys and Enter through the root.  The size stays as  *)
(* it is.                                                                  *)
(***************************************************************************)
MinWindowHeight == 25

MaxWindowHeight == 36

WindowHeights == MinWindowHeight..MaxWindowHeight

\* A window too narrow for two full-width columns, and one wide enough.
WindowWidths == {60, 100}

Sized(w, h) == handleWindowSizeMsg(NewApp, w, h)

GridKeys == {Key(k) : k \in {"up", "down", "left", "right", "enter"}}

InitGrid ==
    \/ \E w \in WindowWidths, h \in WindowHeights :
          Started(PressAll(Sized(w, h), <<"alt+3">>))
    \/ \E w \in WindowWidths :
          Started(PressAll(Sized(w, MaxWindowHeight), <<"alt+3", "tab", "tab">>))

NextGrid == \E msg \in GridKeys : KeyPress(msg)

SpecGrid == InitGrid /\ [][NextGrid]_vars

(***************************************************************************)
(* Resize specification: the params grid has the focus and receives the    *)
(* arrow keys while the terminal is resized.                               *)
(***************************************************************************)
ArrowKeys == {Key(k) : k \in {"up", "down", "left", "right"}}

InitResize ==
    \E w \in WindowWidths, h \in WindowHeights :
       Started(PressAll(Sized(w, h), <<"alt+3">>))

NextResize ==
    \/ \E msg \in ArrowKeys : KeyPress(msg)
    \/ \E w \in WindowWidths, h \in WindowHeights : WindowSize(w, h)

SpecResize == InitResize /\ [][NextResize]_vars

RECURSIVE ParamsRun(_, _)
ParamsRun(pc, keys) ==
    IF keys = <<>> THEN pc
    ELSE ParamsRun(ParamsUpdate(pc, Key(Head(keys))), Tail(keys))

\* The focused row lies in the window of displayed rows and the window
\* lies in the grid.
ParamsWindowOK(pc) ==
    LET visibleCount == getNumDisplayableInputRows(pc)
    IN visibleCount > 0 =>
          /\ pc.scrollOffset <= pc.focusedRow
          /\ pc.focusedRow < pc.scrollOffset + visibleCount
          /\ 0 <= pc.scrollOffset
          /\ pc.scrollOffset <= Max(numParamRows - visibleCount, 0)

\* The active params grid at a height that displays three rows.
ThreeRowGrid ==
    LET ht == CHOOSE x \in 0..(numParamRows + 6) :
                 getNumDisplayableInputRows(ParamsSetHeight(NewParamsContainer, x)) = 3
    IN ParamsSetActive(ParamsSetHeight(NewParamsContainer, ht), TRUE)

FiveDownsScenario ==
    LET pc == ParamsRun(ThreeRowGrid, Repeat("down", 5))
    IN /\ ThreeRowGrid.focusedRow = 0 /\ ThreeRowGrid.scrollOffset = 0
       /\ pc.focusedRow = 5 /\ pc.scrollOffset = 3

\* C6 (grid visibility invariant, params grid, R = 6): with the height
\* fixed and visibleCount > 0, after every navigation key from (row 0,
\* col 0, offset 0), offset <= focusedRow < offset + visibleCount and
\* 0 <= offset <= max(0, R - visibleCount); with visibleCount = 3, five
\* down presses give focusedRow = 5 and offset = 3.
C6_GridVisibility ==
    /\ tabContainer.QueryTab.ParamsInput.Active =>
          ParamsWindowOK(tabContainer.QueryTab.ParamsInput)
    /\ FiveDownsScenario

\* Three rows are displayed and the window has scrolled to the last row.
C6_ScrolledToLastRow ==
    LET pc == tabContainer.QueryTab.ParamsInput
    IN /\ pc.Active /\ getNumDisplayableInputRows(pc) = 3
       /\ pc.focusedRow = 5 /\ pc.scrollOffset = 3

\* C7 (scroll-window maintenance after resize): immediately after any
\* resize (SetHeight/SetWidth through a window size message) of the active
\* params grid, if visibleCount > 0 then offset <= focusedRow <
\* offset + visibleCount and offset <= max(0, R - visibleCount), with no
\* further key.
C7_WindowAfterResize ==
    [][(height' # height \/ width' # width) =>
          (tabContainer'.QueryTab.ParamsInput.Active =>
              ParamsWindowOK(tabContainer'.QueryTab.ParamsInput))]_vars

\* The grid displays some rows, but not the focused one.
C7_FocusedRowHidden ==
    LET pc == tabContainer.QueryTab.ParamsInput
        visibleCount == getNumDisplayableInputRows(pc)
    IN /\ pc.Active /\ visibleCount > 0
       /\ pc.focusedRow >= pc.scrollOffset + visibleCount

\* The program after one more key, and its two grids.
Pressed(k) == handleKeyMsg(App, Key(k)).app

ParamsGrid(a) == a.tabContainer.QueryTab.ParamsInput

HeadersGrid(a) == a.tabContainer.QueryTab.HeadersInput

NoOp(k) == Pressed(k) = App

ParamsEdgeClamps ==
    LET pc == ParamsGrid(App)
    IN pc.Active =>
          /\ pc.focusedRow = 0 => NoOp("up")
          /\ pc.focusedRow = numParamRows - 1 => NoOp("down")
          /\ pc.focusedRow = 0 /\ pc.focusedCol = 0 => NoOp("left")
          /\ pc.focusedRow = numParamRows - 1 /\ pc.focusedCol = 1 => NoOp("right")

HeadersHorizontalClamps ==
    LET h == HeadersGrid(App)
    IN h.Active =>
          /\ h.focusedRow = 0 /\ h.focusedInput = 0 => NoOp("left")
          /\ h.focusedRow = numHeaderRows - 1 /\ h.focusedInput = 1 => NoOp("right")

HeadersVerticalClamps ==
    LET h == HeadersGrid(App)
    IN h.Active =>
          /\ h.focusedRow = 0 => NoOp("up")
          /\ h.focusedRow = numHeaderRows - 1 => NoOp("down")

\* C8 (grid edge clamps) as stated: in an active row grid, up at row 0,
\* down at row R-1, left at (row 0, col 0) and right at (row R-1, col 1)
\* are no-ops: focused row and column, scroll offset and every row's
\* contents and selector state are unchanged.
C8_EdgeClamps ==
    ParamsEdgeClamps /\ HeadersHorizontalClamps /\ HeadersVerticalClamps

\* C8 as amended: the same, where up and down in the headers grid are
\* no-ops at the first and last row provided the header-name dropdown of
\* the focused cell is closed (an open dropdown takes up and down).
C8_EdgeClampsDropdownClosed ==
    /\ ParamsEdgeClamps
    /\ HeadersHorizontalClamps
    /\ ~HeadersIsDropdownOpen(HeadersGrid(App)) => HeadersVerticalClamps

\* The headers grid stands in its last cell, with a header name chosen in
\* the first row.
C8_HeadersLastCell ==
    LET h == HeadersGrid(App)
    IN /\ h.Active /\ h.focusedRow = numHeaderRows - 1 /\ h.focusedInput = 1
       /\ h.inputs[1].SelectedHeader # 0

\* The text inputs of the params grid that have the focus, as cells.
FocusedCells(pc) ==
    {<<i - 1, 0>> : i \in {j \in 1..Len(pc.Inputs) : pc.Inputs[j].NameInput.focus}}
    \cup {<<i - 1, 1>> : i \in {j \in 1..Len(pc.Inputs) : pc.Inputs[j].ValueInput.focus}}

ParamsAt(pc, r, c) ==
    /\ pc.focusedRow = r /\ pc.focusedCol = c
    /\ FocusedCells(pc) = {<<r, c>>}

\* From (0, 0), k times right stands in the k-th cell in reading order,
\* the last after 2R - 1; from there k times left stands in the k-th cell
\* counted backwards.
ReadingOrderTour ==
    LET start == ParamsGrid(ParamsFocused)
        last == 2 * numParamRows - 1
        end == ParamsRun(start, Repeat("right", last))
    IN /\ ParamsAt(start, 0, 0)
       /\ \A k \in 0..last :
             /\ ParamsAt(ParamsRun(start, Repeat("right", k)), k \div 2, k % 2)
             /\ ParamsAt(ParamsRun(end, Repeat("left", k)),
                         (last - k) \div 2, (last - k) % 2)

\* C9 (reading-order cursor, params grid): right at column 0 moves to
\* column 1 of the same row; right at column 1 of row r < R-1 moves to
\* (r+1, 0); left at column 1 moves to column 0; left at column 0 of row
\* r > 0 moves to (r-1, 1); from (0, 0), 2R-1 times right visits every cell
\* once in reading order and ends at (R-1, 1), and left retraces the path.
C9_ParamsReadingOrder ==
    /\ LET pc == ParamsGrid(App)
           r == pc.focusedRow
           c == pc.focusedCol
       IN pc.Active =>
             /\ c = 0 => ParamsAt(ParamsGrid(Pressed("right")), r, 1)
             /\ c = 1 /\ r < numParamRows - 1 =>
                   ParamsAt(ParamsGrid(Pressed("right")), r + 1, 0)
             /\ c = 1 => ParamsAt(ParamsGrid(Pressed("left")), r, 0)
             /\ c = 0 /\ r > 0 => ParamsAt(ParamsGrid(Pressed("left")), r - 1, 1)
    /\ ReadingOrderTour

\* The params grid stands in column 0 of a row below the first, where left
\* leads to the row above.
C9_ParamsAtRowStart ==
    LET pc == ParamsGrid(App)
    IN pc.Active /\ pc.focusedRow = 3 /\ pc.focusedCol = 0

\* C10 (reading-order cursor, headers grid, R = 9): with no dropdown open,
\* left at column 0 of row r > 0 moves the focus to column 1 of row r-1, and
\* right at column 1 of row r < R-1 moves it to column 0 of row r+1.
C10_HeadersReadingOrder ==
    LET h == HeadersGrid(App)
        r == h.focusedRow
        left == HeadersGrid(Pressed("left"))
        right == HeadersGrid(Pressed("right"))
    IN h.Active /\ (\A i \in 1..Len(h.inputs) : ~h.inputs[i].DropdownOpen) =>
          /\ h.focusedInput = 0 /\ r > 0 =>
                left.focusedRow = r - 1 /\ left.focusedInput = 1
          /\ h.focusedInput = 1 /\ r < numHeaderRows - 1 =>
                right.focusedRow = r + 1 /\ right.focusedInput = 0

\* The headers grid stands, all dropdowns closed, in column 0 of the
\* second row, where left leaves the focus.
C10_HeadersAtRowStart ==
    LET h == HeadersGrid(App)
    IN /\ h.Active /\ h.focusedRow = 1 /\ h.focusedInput = 0
       /\ \A i \in 1..Len(h.inputs) : ~h.inputs[i].DropdownOpen
       /\ HeadersGrid(Pressed("left")).focusedRow = 1
       /\ HeadersGrid(Pressed("left")).focusedInput = 0

(***************************************************************************)
(* What the program holds apart from activation and input focus: the       *)
(* selections, the texts with their cursors, the grid cursors, the tab     *)
(* indices, the response content, the spinner and the window size.         *)
(***************************************************************************)
TextOf(ti) == [value |-> ti.value, pos |-> ti.pos]

Contents(a) ==
    LET q == a.tabContainer.QueryTab
        r == a.tabContainer.ResultTab
        pc == q.ParamsInput
        h == q.HeadersInput
        ac == q.AuthInput
    IN [method |-> [a.methodSelector EXCEPT !.Active = FALSE],
        url |-> TextOf(a.urlInput.TextInput),
        params |-> [rows |-> [i \in 1..Len(pc.Inputs) |->
                                 <<TextOf(pc.Inputs[i].NameInput),
                                   TextOf(pc.Inputs[i].ValueInput)>>],
                    cursor |-> <<pc.focusedRow, pc.focusedCol, pc.scrollOffset>>,
                    size |-> <<pc.Width, pc.Height>>],
        headers |-> [rows |-> [i \in 1..Len(h.inputs) |->
                                  <<h.inputs[i].SelectedHeader, h.inputs[i].DropdownOpen,
                                    TextOf(h.inputs[i].ValueInput)>>],
                     cursor |-> <<h.focusedRow, h.focusedInput>>],
        auth |-> [selector |-> [ac.authSelector EXCEPT !.active = FALSE],
                  basic |-> <<TextOf(ac.basicAuthDetails.usernameInput),
                              TextOf(ac.basicAuthDetails.passwordInput),
                              ac.basicAuthDetails.focusedField>>,
                  token |-> TextOf(ac.tokenAuthDetails.tokenInput)],
        body |-> q.QueryBodyInput.value,
        tabs |-> <<a.tabContainer.ActiveTab, q.ActiveInnerTab, r.ActiveInnerTab>>,
        response |-> <<[r.HeadersTab EXCEPT !.Active = FALSE],
                       [r.BodyTab EXCEPT !.Active = FALSE]>>,
        spinner |-> a.spinner,
        size |-> <<a.width, a.height>>]

\* The outcome of a submit that found the URL invalid.
InvalidSubmitOutcome(a, r) ==
    /\ r.cmds = {}
    /\ r.app.spinner = a.spinner
    /\ r.app.toast.Visible
    /\ ActiveTopLevel(r.app) = {"url"}
    /\ Contents(r.app) = Contents(a)

\* The keys that submit in the current state: the submit hotkey and its
\* rune alias, and Enter while the URL field has the keys.
SubmitKeys ==
    {Key("alt+5"), Rune("U+221E")}
    \cup (IF urlInput.Active /\ ~methodSelector.Active /\ ~toast.Visible
          THEN {Key("enter")} ELSE {})

\* C11 (submit with an invalid URL): from any state and by any trigger, no
\* request and no spinner tick is dispatched, the spinner is not shown, the
\* toast becomes visible, the URL field becomes the only active top-level
\* widget, and nothing else changes (method selection, grid contents, tab
\* indices, response content).
C11_InvalidSubmit ==
    ~validateURL(URLInputGetText(urlInput)) =>
        /\ InvalidSubmitOutcome(App, handleSubmit(App))
        /\ \A msg \in SubmitKeys : InvalidSubmitOutcome(App, handleKeyMsg(App, msg))

\* An invalid URL was submitted after the Headers inner tab had been
\* chosen: the toast is up and the URL field alone is active.
C11_InvalidSubmitRefused ==
    /\ toast.Visible /\ toast.Message = <<"Invalid URL: The Provided URL is not valid.">>
    /\ URLInputGetText(urlInput) = URLInvalid
    /\ ActiveTopLevel(App) = {"url"}
    /\ tabContainer.QueryTab.ActiveInnerTab = 2

(***************************************************************************)
(* Completion of a request                                                 *)
(***************************************************************************)
ErrorMsgs == {msg \in CompletionMsgs : msg.Error # <<>>}

\* What the two response views hold: the raw copies and what they display.
ResponseContent(a) ==
    LET r == a.tabContainer.ResultTab
    IN [headers |-> [raw |-> r.HeadersTab.rawContent, display |-> r.HeadersTab.Content],
        body |-> [raw |-> r.BodyTab.rawContent, display |-> r.BodyTab.Viewport.lines]]

\* C12 (response content on failure): when the completion of an outstanding
\* request carries an error, the Headers and Body views hold after it what
\* they held before it, the raw copies and the displayed texts alike.
C12_ErrorKeepsResponse ==
    inflight > 0 =>
        \A msg \in ErrorMsgs :
            ResponseContent(handleRequestCompleteMsg(App, msg)) = ResponseContent(App)

\* A failed request has completed: the error toast is up and both views
\* are empty.
C12_ResponseErased ==
    /\ toast.Visible /\ toast.Message = <<"Error: ", "connection refused">>
    /\ tabContainer.ResultTab.BodyTab.rawContent = <<>>
    /\ tabContainer.ResultTab.HeadersTab.Content = <<>>

\* The three tab indices: the outer tab and the inner tab of each side.
TabIndices(a) ==
    <<a.tabContainer.ActiveTab, a.tabContainer.QueryTab.ActiveInnerTab,
      a.tabContainer.ResultTab.ActiveInnerTab>>

\* C13 (focus after a failure): when the completion of an outstanding
\* request carries an error, afterwards the toast is visible, the spinner is
\* hidden, the URL field is the only active top-level widget, no widget
\* under the tab container is active and the outer and inner tab indices
\* are what they were.
C13_ErrorOutcome ==
    inflight > 0 =>
        \A msg \in ErrorMsgs :
            LET a == handleRequestCompleteMsg(App, msg)
            IN /\ a.toast.Visible
               /\ ~a.spinner.Visible
               /\ ActiveTopLevel(a) = {"url"}
               /\ ActiveTabLeaves(a.tabContainer) = {}
               /\ TabIndices(a) = TabIndices(App)

\* A failed request has completed while the query tab was selected: the
\* error toast is up, the result tab is selected and its Headers view is
\* active next to the URL field.
C13_ErrorFocusedResult ==
    /\ toast.Visible /\ toast.Message = <<"Error: ", "connection refused">>
    /\ ~spinner.Visible
    /\ urlInput.Active
    /\ "resultHeaders" \in ActiveTabLeaves(tabContainer)
    /\ TabIndices(App) = <<1, 0, 0>>

(***************************************************************************)
(* Outer tab hotkeys                                                       *)
(***************************************************************************)
\* The hotkeys that select an outer tab, with the runes some terminals send
\* for them, and the outer tab each selects.
OuterTabKeys ==
    {[msg |-> Key("alt+3"), tab |-> 0], [msg |-> Rune("U+00A3"), tab |-> 0],
     [msg |-> Key("alt+4"), tab |-> 1], [msg |-> Rune("U+00A2"), tab |-> 1]}

\* The outer tab of a is tab, the tab container is active, both inner
\* indices are those of before, and the widget of the composition view's
\* inner tab is the active one there.
OuterTabSwitched(before, a, tab) ==
    LET q == a.tabContainer.QueryTab
    IN /\ a.tabContainer.ActiveTab = tab
       /\ a.tabContainer.Active
       /\ q.ActiveInnerTab = before.tabContainer.QueryTab.ActiveInnerTab
       /\ a.tabContainer.ResultTab.ActiveInnerTab =
             before.tabContainer.ResultTab.ActiveInnerTab
       /\ QueryActiveChildren(q) = {q.InnerTabs[q.ActiveInnerTab + 1]}

\* C14 (inner selection survives outer switches): in every reachable state
\* each outer-tab hotkey selects its outer tab and leaves both inner indices
\* as they were, and so does the hotkey of the other outer tab pressed next
\* (to the response view and back, or the reverse): the composition view
\* still has inner tab i selected and its widget active.
C14_InnerTabKept ==
    \A k \in OuterTabKeys :
        \E r \in {handleKeyMsg(App, k.msg).app} :
            /\ OuterTabSwitched(App, r, k.tab)
            /\ \A back \in {b \in OuterTabKeys : b.tab # k.tab} :
                  \E r2 \in {handleKeyMsg(r, back.msg).app} :
                     OuterTabSwitched(App, r2, back.tab)

\* The response view is selected with its Body inner tab while the
\* composition view keeps Headers (index 2) selected.
C14_ResponseShownHeadersKept ==
    /\ tabContainer.Active /\ tabContainer.ActiveTab = 1
    /\ tabContainer.QueryTab.ActiveInnerTab = 2
    /\ tabContainer.ResultTab.ActiveInnerTab = 1

(***************************************************************************)
(* Wrap specification: one call of wrapText on a text over a small         *)
(* alphabet with line breaks at a small width, or on the single line of    *)
(* 200 characters at width 50; the result is then wrapped again at the     *)
(* same width.                                                             *)
(***************************************************************************)
MaxWrapLen == 4

MaxWrapWidth == 3

WrapAlphabet == {"a", "b", "\n"}

LongLine == [i \in 1..200 |-> "a"]

WrapTexts == UNION {[1..n -> WrapAlphabet] : n \in 0..MaxWrapLen}

WrapWidths == 1..MaxWrapWidth

WrapCalls ==
    {[content |-> s, width |-> w, pc |-> "called", out |-> <<>>, again |-> <<>>] :
        s \in WrapTexts, w \in WrapWidths}
    \cup {[content |-> LongLine, width |-> 50, pc |-> "called",
           out |-> <<>>, again |-> <<>>]}

InitWrap ==
    /\ AppIs(NewApp)
    /\ inflight = 0 /\ ticks = 0 /\ quit = FALSE /\ clipboard = <<>>
    /\ wrapCall \in WrapCalls /\ validateCall = NoValidateCall /\ rowsCall = NoRowsCall
    /\ dataCall = NoDataCall

\* wrapText returns.
WrapReturn ==
    /\ wrapCall.pc = "called"
    /\ wrapCall' = [wrapCall EXCEPT !.pc = "returned",
                                    !.out = wrapText(wrapCall.content, wrapCall.width)]
    /\ UNCHANGED <<methodSelector, urlInput, submitButton, tabContainer, toast, spinner,
                   width, height, inflight, ticks, quit, clipboard, validateCall,
                   rowsCall, dataCall>>

\* wrapText is called on its own result and returns.
WrapAgain ==
    /\ wrapCall.pc = "returned"
    /\ wrapCall' = [wrapCall EXCEPT !.pc = "rewrapped",
                                    !.again = wrapText(wrapCall.out, wrapCall.width)]
    /\ UNCHANGED <<methodSelector, urlInput, submitButton, tabContainer, toast, spinner,
                   width, height, inflight, ticks, quit, clipboard, validateCall,
                   rowsCall, dataCall>>

NextWrap == WrapReturn \/ WrapAgain

SpecWrap == InitWrap /\ [][NextWrap]_vars

\* C15 (wrap idempotence): for every text s and every width w > 0,
\* wrapping the result of wrapText(s, w) again at width w gives the same
\* text.
C15_WrapIdempotent ==
    wrapCall.pc = "rewrapped" => wrapCall.again = wrapCall.out

\* A text with a long line and a line break has been wrapped twice.
C15_RewrappedLongLine ==
    /\ wrapCall.pc = "rewrapped"
    /\ wrapCall.content = <<"a", "a", "a", "\n">> /\ wrapCall.width = 2
    /\ wrapCall.again = <<"a", "a", "\n", "a", "\n">>

\* The number of chunks an input line of length n is written in.
ChunkCount(n, w) == IF n = 0 THEN 1 ELSE (n + w - 1) \div w

\* The lines of out from the first on are the chunks of the lines of in, in
\* order: each input line takes ChunkCount lines, all of them w long but
\* the last, which together spell the input line.
RECURSIVE ChunksOf(_, _, _)
ChunksOf(in, outLines, w) ==
    IF in = <<>> THEN outLines = <<>>
    ELSE LET n == ChunkCount(Len(Head(in)), w)
         IN /\ Len(outLines) >= n
            /\ \A i \in 1..(n - 1) : Len(outLines[i]) = w
            /\ Len(outLines[n]) <= w
            /\ Head(in) = [i \in 1..Len(Head(in)) |->
                              outLines[((i - 1) \div w) + 1][((i - 1) % w) + 1]]
            /\ Len(Head(in)) = (n - 1) * w + Len(outLines[n])
            /\ ChunksOf(Tail(in), SubSeq(outLines, n + 1, Len(outLines)), w)

\* The characters of a text other than line breaks.
IsCharacter(c) == c # "\n"

Characters(s) == SelectSeq(s, IsCharacter)

\* C16 (hard wrap): for every text s and width w > 0 every line of
\* wrapText(s, w) is at most w long, an input line longer than w comes out
\* as ceil(L/w) consecutive chunks, a shorter or empty one comes out as it
\* is, and the characters other than line breaks are those of s in the same
\* order; the line of 200 characters at width 50 comes out as 4 chunks.
C16_HardWrap ==
    wrapCall.pc \in {"returned", "rewrapped"} =>
        LET w == wrapCall.width
            outLines == Split(wrapCall.out)
        IN /\ \A i \in 1..Len(outLines) : Len(outLines[i]) <= w
           /\ ChunksOf(Split(wrapCall.content), outLines, w)
           /\ Characters(wrapCall.out) = Characters(wrapCall.content)
           /\ (wrapCall.content = LongLine /\ w = 50) =>
                 /\ Len(outLines) = 4
                 /\ \A i \in 1..4 : Len(outLines[i]) = 50

\* The line of 200 characters has been wrapped at width 50 into 4 lines.
C16_ScenarioD ==
    /\ wrapCall.pc = "returned"
    /\ wrapCall.content = LongLine /\ wrapCall.width = 50
    /\ Len(Split(wrapCall.out)) = 4

(***************************************************************************)
(* View specification: a small terminal, a valid URL in the URL field;     *)
(* requests are submitted and complete with a one-line body, a body of     *)
(* several lines or an error, the result views are focused, scrolled and   *)
(* copied from, and the terminal is resized.                               *)
(***************************************************************************)
ViewWidths == {14, 16}

ViewHeights == {27, 30}

ViewKeys ==
    {Key(k) : k \in {"alt+4", "alt+5", "tab", "y", "up", "down", "home", "end",
                     "pgup", "ctrl+d"}}

ViewMsgs ==
    {[Headers |-> <<"H">>, Body |-> <<"a", "b", "c", "d", "e", "f", "g">>, Error |-> <<>>],
     [Headers |-> <<"K">>, Body |-> <<"a", "\n", "b", "\n", "c", "\n", "d">>, Error |-> <<>>],
     [Headers |-> <<>>, Body |-> <<>>, Error |-> <<"connection refused">>]}

InitView ==
    \E w \in ViewWidths, h \in ViewHeights :
       Started(handleKeyMsg(handleWindowSizeMsg(NewApp, w, h), Paste(URLValid)).app)

NextView ==
    \/ \E msg \in ViewKeys : KeyPress(msg)
    \/ \E msg \in ViewMsgs : RequestComplete(msg)
    \/ \E w \in ViewWidths, h \in ViewHeights : WindowSize(w, h)

SpecView == InitView /\ [][NextView]_vars

\* The raw copies of the two response views.
RawContents(a) ==
    <<a.tabContainer.ResultTab.HeadersTab.rawContent,
      a.tabContainer.ResultTab.BodyTab.rawContent>>

\* The raw copy of the response view selected in the result tab.
SelectedRaw(a) == RawContents(a)[a.tabContainer.ResultTab.ActiveInnerTab + 1]

\* C17 (copy fidelity): a step changes the raw copy of a response view only
\* if it is the completion of a request, whose SetContent calls make the raw
\* copies the texts of the message; resizes, scroll keys, tab switches and
\* activations leave them alone.  The copy key pressed on an active view
\* hands the view's raw copy to the clipboard, and whenever the clipboard is
\* written it receives the raw copy of the selected view.
C17_CopyFidelity ==
    [][/\ \/ RawContents(App)' = RawContents(App)
          \/ \E msg \in ViewMsgs :
                /\ inflight' = inflight - 1
                /\ AppBecomes(handleRequestCompleteMsg(App, msg))
                /\ RawContents(App)' = <<msg.Headers, msg.Body>>
       /\ \A v \in {tabContainer.ResultTab.BodyTab} :
             v.Active => BodyContainerCopies(v, Key("y")) = <<v.rawContent>>
       /\ \A v \in {tabContainer.ResultTab.HeadersTab} :
             v.Active => HeadersContainerCopies(v, Key("y")) = <<v.rawContent>>
       /\ handleKeyMsgCopies(App, Key("y")) \in {<<>>, <<SelectedRaw(App)>>}
       /\ clipboard' # clipboard => clipboard' = SelectedRaw(App)
      ]_vars

\* The one-line body was copied while the viewport showed it wrapped into
\* several lines and scrolled down: the clipboard holds the unwrapped text.
C17_CopiedWhileScrolled ==
    /\ clipboard = <<"a", "b", "c", "d", "e", "f", "g">>
    /\ tabContainer.ResultTab.BodyTab.rawContent = clipboard
    /\ Len(tabContainer.ResultTab.BodyTab.Viewport.lines) > 1
    /\ tabContainer.ResultTab.BodyTab.Viewport.YOffset > 0
    /\ tabContainer.ResultTab.BodyTab.Active

(***************************************************************************)
(* Key routing                                                             *)
(***************************************************************************)
\* Every widget whose Update is called with msg while the root handles it.
Recipients(a, msg) ==
    LET top == handleKeyMsgDelivers(a, msg)
        tab == IF "tabs" \in top THEN TabsDelivers(a.tabContainer, msg) ELSE {}
    IN top \cup tab
       \cup (IF "query" \in tab THEN QueryTabDelivers(a.tabContainer.QueryTab, msg) ELSE {})
       \cup (IF "result" \in tab THEN ResultTabDelivers(a.tabContainer.ResultTab, msg) ELSE {})

(***************************************************************************)
(* Quit specification: from program start the method selector, the URL     *)
(* field and the result tab are focused, the dropdown is opened and moved  *)
(* in, URL texts are pasted and submitted, requests complete, and Esc or   *)
(* Ctrl+C is pressed.                                                      *)
(***************************************************************************)
QuitKeys ==
    {Key(k) : k \in {"alt+1", "alt+2", "alt+4", "alt+5", "enter", "down", "esc", "ctrl+c"}}
    \cup {Paste(URLValid), Paste(URLInvalid)}

InitQuit == Started(NewApp)

NextQuit ==
    \/ \E msg \in QuitKeys : KeyPress(msg)
    \/ \E msg \in CompletionMsgs : RequestComplete(msg)

SpecQuit == InitQuit /\ [][NextQuit]_vars

ContentsButTabs(a) == [Contents(a) EXCEPT !.tabs = <<>>]

\* The index after i in a tab set of n tabs, forwards for Tab and backwards
\* for Shift+Tab, with wrap-around.
CycledIndex(i, n, k) == IF k = "tab" THEN (i + 1) % n ELSE (i + n - 1) % n

FocusHotkeys ==
    {[msg |-> Key("alt+1"), widget |-> "method", tab |-> <<>>],
     [msg |-> Rune("U+00A1"), widget |-> "method", tab |-> <<>>],
     [msg |-> Key("alt+2"), widget |-> "url", tab |-> <<>>],
     [msg |-> Rune("U+2122"), widget |-> "url", tab |-> <<>>],
     [msg |-> Key("alt+5"), widget |-> "submit", tab |-> <<>>],
     [msg |-> Rune("U+221E"), widget |-> "submit", tab |-> <<>>],
     [msg |-> Key("alt+3"), widget |-> "tabs", tab |-> <<0>>],
     [msg |-> Rune("U+00A3"), widget |-> "tabs", tab |-> <<0>>],
     [msg |-> Key("alt+4"), widget |-> "tabs", tab |-> <<1>>],
     [msg |-> Rune("U+00A2"), widget |-> "tabs", tab |-> <<1>>]}

\* C20 (direct-focus hotkeys): in every reachable state, after the method,
\* URL, submit, query-tab or result-tab hotkey the top-level widget it names
\* is active, the tab container showing the named outer tab, and the other
\* top-level widgets are inactive.
C20_HotkeyFocus ==
    \A k \in FocusHotkeys :
        \E r \in {handleKeyMsg(App, k.msg).app} :
            /\ ActiveTopLevel(r) = {k.widget}
            /\ k.tab # <<>> => r.tabContainer.ActiveTab = k.tab[1]

\* C20 as the code has it: the method, URL, query-tab and result-tab
\* hotkeys leave the widget they name as the only active top-level widget,
\* the tab container showing the named outer tab; the submit hotkey does
\* not focus the submit button but submits, with the outcome of
\* handleSubmit, whatever had the focus.
C20_HotkeyFocusOrSubmit ==
    \A k \in FocusHotkeys :
        \E r \in {handleKeyMsg(App, k.msg)} :
            IF k.widget = "submit"
            THEN /\ r = handleSubmit(App)
                 /\ ~r.app.submitButton.Active
            ELSE /\ r.cmds = {}
                 /\ ActiveTopLevel(r.app) = {k.widget}
                 /\ k.tab # <<>> => r.app.tabContainer.ActiveTab = k.tab[1]

\* The result-tab hotkey was pressed before any request was submitted: the
\* tab container shows the result tab with its placeholder texts and is the
\* only active top-level widget.
C20_ResultTabFocused ==
    /\ ActiveTopLevel(App) = {"tabs"}
    /\ tabContainer.ActiveTab = 1
    /\ RawContents(App) = <<HeadersPlaceholder, BodyPlaceholder>>
    /\ inflight = 0

(***************************************************************************)
(* Esc on an open selector                                                 *)
(***************************************************************************)
\* C21 (esc closes an open selector): when a selector that has the focus is
\* open (the method dropdown, the auth-type dropdown or the header-name
\* dropdown of the focused header row), Esc pressed at the root closes it
\* without committing: it is closed, its selection is what it was, the
\* highlight of the auth-type dropdown is back on the selection, and the
\* program keeps running.
C21_EscClosesSelector ==
    \E r \in {handleKeyMsg(App, Key("esc"))} :
        LET m == methodSelector
            as == tabContainer.QueryTab.AuthInput.authSelector
            h == tabContainer.QueryTab.HeadersInput
            m2 == r.app.methodSelector
            as2 == r.app.tabContainer.QueryTab.AuthInput.authSelector
            h2 == r.app.tabContainer.QueryTab.HeadersInput
        IN /\ m.Active /\ m.DropdownOpen =>
                /\ "quit" \notin r.cmds
                /\ ~m2.DropdownOpen /\ m2.SelectedMethod = m.SelectedMethod
           /\ as.active /\ as.isOpen =>
                /\ "quit" \notin r.cmds
                /\ ~as2.isOpen /\ as2.selectedIndex = as.selectedIndex
                /\ as2.highlightedIndex = as.selectedIndex
           /\ h.Active /\ h.focusedInput = 0 /\ FocusedHeaderRow(h).DropdownOpen =>
                /\ "quit" \notin r.cmds
                /\ ~FocusedHeaderRow(h2).DropdownOpen
                /\ FocusedHeaderRow(h2).SelectedHeader = FocusedHeaderRow(h).SelectedHeader

\* Esc was pressed while the auth-type dropdown was open: the program has
\* quit and the dropdown is still open.
C21_QuitLeftAuthDropdownOpen ==
    /\ quit
    /\ tabContainer.QueryTab.AuthInput.authSelector.active
    /\ tabContainer.QueryTab.AuthInput.authSelector.isOpen

(***************************************************************************)
(* Terminal resize                                                         *)
(***************************************************************************)
\* What a resize is to leave alone: the active flags, the selectors, the
\* grid cursors and the tab indices.
ResizeFrame(a) ==
    LET q == a.tabContainer.QueryTab
        pc == q.ParamsInput
        h == q.HeadersInput
    IN [active |-> <<ActiveTopLevel(a), TabsActiveChildren(a.tabContainer),
                     ActiveTabLeaves(a.tabContainer), AuthActiveChildren(q.AuthInput)>>,
        method |-> <<a.methodSelector.SelectedMethod, a.methodSelector.DropdownOpen>>,
        auth |-> <<q.AuthInput.authSelector.selectedIndex,
                   q.AuthInput.authSelector.highlightedIndex,
                   q.AuthInput.authSelector.isOpen>>,
        headerRows |-> [i \in 1..Len(h.inputs) |->
                           <<h.inputs[i].SelectedHeader, h.inputs[i].DropdownOpen>>],
        cursors |-> <<pc.focusedRow, pc.focusedCol, h.focusedRow, h.focusedInput>>,
        tabs |-> TabIndices(a)]

\* The terminal sizes of the resize events.
ResizeSizes == (ViewWidths \cup WindowWidths) \X (ViewHeights \cup WindowHeights)

\* C22 (resize frame and idempotence): in every reachable state a resize
\* event leaves the active flags, the selectors' open state and indices,
\* the grid cursors and the tab indices unchanged, and the same event
\* applied a second time changes nothing any more.
C22_ResizeIdempotent ==
    \A s \in ResizeSizes :
        \E a1 \in {handleWindowSizeMsg(App, s[1], s[2])} :
            /\ ResizeFrame(a1) = ResizeFrame(App)
            /\ handleWindowSizeMsg(a1, s[1], s[2]) = a1

\* A response body is on display and the second of two equal resize events
\* re-wraps the viewport's visible lines once more.
C22_BodyRewrappedFromView ==
    /\ tabContainer.ResultTab.BodyTab.rawContent \notin {<<>>, BodyPlaceholder}
    /\ \E a1 \in {handleWindowSizeMsg(App, width, height)} :
           handleWindowSizeMsg(a1, width, height).tabContainer.ResultTab.BodyTab.Viewport.lines
               # a1.tabContainer.ResultTab.BodyTab.Viewport.lines

(***************************************************************************)
(* Spinner specification: a valid URL is in the URL field; requests are    *)
(* submitted and complete, and the runtime delivers the spinner's ticks.   *)
(* The runtime delivers every message it holds: a pending tick and the     *)
(* completion of an outstanding request are not postponed for ever.        *)
(***************************************************************************)
SpinKeys == {Key("enter"), Key("alt+3"), Key("alt+2")}

InitSpin == Started(handleKeyMsg(NewApp, Paste(URLValid)).app)

NextSpin ==
    \/ \E msg \in SpinKeys : KeyPress(msg)
    \/ \E msg \in CompletionMsgs : RequestComplete(msg)
    \/ SpinnerTick

SpecSpin ==
    /\ InitSpin /\ [][NextSpin]_vars
    /\ WF_vars(SpinnerTick)
    /\ WF_vars(\E msg \in CompletionMsgs : RequestComplete(msg))

\* C23 (spinner ticks), as stated: a tick chain ends only at a hidden
\* spinner and then advances no frame, a frame advances only on a visible
\* spinner whose tick is rescheduled, and every dispatched request is
\* eventually followed by a state with the spinner hidden and no tick pending.
C23_SpinnerSettles ==
    /\ [][/\ ticks' < ticks => ~spinner.Visible /\ spinner' = spinner
          /\ spinner'.FrameIdx # spinner.FrameIdx =>
                /\ spinner.Visible /\ ticks' = ticks
                /\ spinner'.FrameIdx = (spinner.FrameIdx + 1) % NumFrames]_vars
    /\ (inflight > 0) ~> (~spinner.Visible /\ ticks = 0)

\* C23 (spinner ticks), amended: the same, the last part for the runs in
\* which requests stop being dispatched from some point on.
C23_SpinnerSettlesOnceQuiet ==
    /\ [][/\ ticks' < ticks => ~spinner.Visible /\ spinner' = spinner
          /\ spinner'.FrameIdx # spinner.FrameIdx =>
                /\ spinner.Visible /\ ticks' = ticks
                /\ spinner'.FrameIdx = (spinner.FrameIdx + 1) % NumFrames]_vars
    /\ <>[][inflight' <= inflight]_vars =>
          ((inflight > 0) ~> (~spinner.Visible /\ ticks = 0))

\* A completion has hidden the spinner while a tick of its animation, which
\* has advanced some frames, is still pending.
C23_TickPendingOnHiddenSpinner ==
    /\ ~spinner.Visible /\ ticks > 0 /\ inflight = 0 /\ spinner.FrameIdx > 0

(***************************************************************************)
(* Activation specification: in a sized terminal the URL field, one of the  *)
(* four inner tabs of the query tab or one of the two result views has     *)
(* the focus; the grids are walked and scrolled, an authentication type is *)
(* chosen and its fields are visited.                                      *)
(***************************************************************************)
ActiveHeights == {33, 36}

ActiveKeys == {Key(k) : k \in {"up", "down", "enter"}}

InitActive ==
    \E h \in ActiveHeights :
       \E ks \in {<<>>, <<"alt+3">>, <<"alt+3", "tab">>, <<"alt+3", "tab", "tab">>,
                  <<"alt+3", "tab", "tab", "tab">>, <<"alt+4">>, <<"alt+4", "tab">>} :
          Started(PressAll(Sized(60, h), ks))

NextActive == \E msg \in ActiveKeys : KeyPress(msg)

SpecActive == InitActive /\ [][NextActive]_vars

\* C24 (SetActive is idempotent): in every reachable state, for each of
\* TabsContainer, QueryTab, ResultTab, AuthContainer, ParamsContainer,
\* HeadersInputContainer and BasicAuthDetailsComponent and for both values
\* of b, SetActive(b) applied twice gives the component that SetActive(b)
\* applied once gives: the same active flags, focus cursors, scroll offset
\* and text-input focus.
C24_SetActiveIdempotent ==
    LET q == tabContainer.QueryTab
    IN \A b \in BOOLEAN :
          /\ \E t \in {TabsSetActive(tabContainer, b)} : TabsSetActive(t, b) = t
          /\ \E x \in {QueryTabSetActive(q, b)} : QueryTabSetActive(x, b) = x
          /\ \E r \in {ResultTabSetActive(tabContainer.ResultTab, b)} :
                ResultTabSetActive(r, b) = r
          /\ \E ac \in {AuthSetActive(q.AuthInput, b)} : AuthSetActive(ac, b) = ac
          /\ \E pc \in {ParamsSetActive(q.ParamsInput, b)} : ParamsSetActive(pc, b) = pc
          /\ \E h \in {HeadersSetActive(q.HeadersInput, b)} : HeadersSetActive(h, b) = h
          /\ \E c \in {BasicAuthSetActive(q.AuthInput.basicAuthDetails, b)} :
                BasicAuthSetActive(c, b) = c

\* The params grid is active and scrolled, its cursor below the first row.
C24_ScrolledGridActive ==
    /\ tabContainer.QueryTab.ParamsInput.Active
    /\ tabContainer.QueryTab.ParamsInput.scrollOffset > 0
    /\ tabContainer.QueryTab.ParamsInput.focusedRow > 0

(***************************************************************************)
(* Layout specification: the terminal is resized to small sizes, zero      *)
(* included.                                                               *)
(***************************************************************************)
MaxLayoutWidth == 12

MaxLayoutHeight == 20

InitLayout == Started(NewApp)

NextLayout == \E w \in 0..MaxLayoutWidth, h \in 0..MaxLayoutHeight : WindowSize(w, h)

SpecLayout == InitLayout /\ [][NextLayout]_vars

\* The widths and heights the widgets store.
StoredSizes(a) ==
    LET t == a.tabContainer
        q == t.QueryTab
        r == t.ResultTab
    IN <<a.urlInput.Width, a.urlInput.textInputWidth, t.Width, t.Height,
         q.Width, q.Height, q.ParamsInput.Width, q.ParamsInput.Height,
         q.ParamsInput.contentWidth, q.ParamsInput.nameInputWidth,
         q.ParamsInput.valueInputWidth, q.AuthInput.Height, q.HeadersInput.height,
         r.Width, r.Height, r.HeadersTab.Width, r.HeadersTab.Height,
         r.BodyTab.Width, r.BodyTab.Height, r.BodyTab.Viewport.Width,
         r.BodyTab.Viewport.Height>>

\* C25 (layout underflow is clamped): after a resize to any terminal size
\* with width and height >= 0, every width and height a widget stores is
\* >= 0.
C25_SizesNonNegative ==
    \A i \in 1..Len(StoredSizes(App)) : StoredSizes(App)[i] >= 0

\* The terminal has been resized to 0 x 0 and the tab container and the
\* URL field store negative sizes.
C25_NegativeSizesStored ==
    /\ width = 0 /\ height = 0
    /\ tabContainer.Height < 0 /\ tabContainer.QueryTab.Width < 0
    /\ urlInput.Width < 0 /\ urlInput.textInputWidth < 0

(***************************************************************************)
(* Validation specification: validateURL is called on URLs put together    *)
(* from a valid host, a port (absent, in range, above 65535 or of six      *)
(* digits) and a path, query or fragment with or without colons followed   *)
(* by digits.                                                              *)
(***************************************************************************)
ValidateHost == <<"h", "t", "t", "p", ":", "/", "/", "a", ".", "c", "o">>

ValidatePorts ==
    {<<>>, <<"0">>, <<"8", "0">>, <<"8", "0", "8", "0">>,
     <<"6", "5", "5", "3", "5">>, <<"6", "5", "5", "3", "6">>,
     <<"9", "9", "9", "9", "9">>, <<"1", "0", "0", "0", "0", "0">>}

ValidateRests ==
    {<<>>, <<"/">>, <<"/", "a">>, <<"/", ":", "1">>,
     <<"/", ":", "7", "0", "0", "0", "0">>,
     <<"/", "a", ":", "1", "2", "3", "4", "5", "6">>,
     <<"?", "t", "=", ":", "7", "0", "0", "0", "0">>,
     <<"?", "p", "=", ":", "8", "0">>, <<"#", ":", "9", "9", "9", "9", "9">>,
     <<"#", "s">>}

ValidateCalls ==
    {[port |-> p, rest |-> r, pc |-> "called", valid |-> FALSE,
      url |-> ValidateHost \o (IF p = <<>> THEN <<>> ELSE <<":">> \o p) \o r] :
        p \in ValidatePorts, r \in ValidateRests}

InitValidate ==
    /\ AppIs(NewApp)
    /\ inflight = 0 /\ ticks = 0 /\ quit = FALSE /\ clipboard = <<>>
    /\ wrapCall = NoWrapCall /\ validateCall \in ValidateCalls /\ rowsCall = NoRowsCall
    /\ dataCall = NoDataCall

\* validateURL returns.
ValidateReturn ==
    /\ validateCall.pc = "called"
    /\ validateCall' = [validateCall EXCEPT !.pc = "returned",
                                            !.valid = validateURL(validateCall.url)]
    /\ UNCHANGED <<methodSelector, urlInput, submitButton, tabContainer, toast, spinner,
                   width, height, inflight, ticks, quit, clipboard, wrapCall, rowsCall, dataCall>>

NextValidate == ValidateReturn

SpecValidate == InitValidate /\ [][NextValidate]_vars

\* The port is above 65535 or has more than five digits.
PortOutOfRange(port) ==
    port # <<>> /\ (Len(port) > 5 \/ PortNum(port, 1, Len(port)) > 65535)

\* C26 (port rule): a URL with a valid host is rejected when its port is
\* above 65535 or has more than five digits, and accepted when the port is
\* absent or within 0..65535, whatever digits follow a colon in its path,
\* query or fragment.
C26_PortRule ==
    validateCall.pc = "returned" =>
        validateCall.valid = ~PortOutOfRange(validateCall.port)

\* validateURL has rejected a URL without a port whose path has a colon
\* followed by 70000.
C26_PathDigitsRejected ==
    /\ validateCall.pc = "returned"
    /\ validateCall.port = <<>> /\ validateCall.rest = <<"/", ":", "7", "0", "0", "0", "0">>
    /\ ~validateCall.valid

(***************************************************************************)
(* Navigation in an open selector                                          *)
(***************************************************************************)
GetSelectedMethod(m) == IF Len(m.Methods) = 0 THEN "" ELSE m.Methods[m.SelectedMethod + 1]

\* The header name a row contributes to GetHeaders.
SelectedHeaderName(row) == row.HeaderSelect[row.SelectedHeader + 1]

\* C27 (navigation keeps the selection): while the method selector, the
\* auth-type selector or the focused header row's name selector is active
\* and open, a next or prev key leaves it open and leaves the committed
\* selection (GetSelectedMethod, the selected auth type, the row's header
\* name) as it was.
C27_NavigationKeepsSelection ==
    \A k \in {"down", "up"} :
        \E r \in {handleKeyMsg(App, Key(k))} :
            LET m == methodSelector
                as == tabContainer.QueryTab.AuthInput.authSelector
                h == tabContainer.QueryTab.HeadersInput
                m2 == r.app.methodSelector
                as2 == r.app.tabContainer.QueryTab.AuthInput.authSelector
                h2 == r.app.tabContainer.QueryTab.HeadersInput
            IN /\ m.Active /\ m.DropdownOpen =>
                    m2.DropdownOpen /\ GetSelectedMethod(m2) = GetSelectedMethod(m)
               /\ as.active /\ as.isOpen =>
                    as2.isOpen /\ as2.selectedIndex = as.selectedIndex
               /\ h.Active /\ h.focusedInput = 0 /\ FocusedHeaderRow(h).DropdownOpen =>
                    /\ FocusedHeaderRow(h2).DropdownOpen
                    /\ SelectedHeaderName(FocusedHeaderRow(h2))
                          = SelectedHeaderName(FocusedHeaderRow(h))

\* A header row's name dropdown is open and a next key has already replaced
\* the name the row had when the dropdown was opened.
C27_HeaderNameReplacedWhileOpen ==
    LET h == tabContainer.QueryTab.HeadersInput
    IN /\ h.Active /\ h.focusedInput = 0 /\ FocusedHeaderRow(h).DropdownOpen
       /\ FocusedHeaderRow(h).SelectedHeader = 1

(***************************************************************************)
(* Tabs specification: a valid URL is in the URL field; the URL field, the *)
(* query tab and the result tab are focused, Tab and Shift+Tab cycle the   *)
(* inner tabs, requests are submitted and complete.                        *)
(***************************************************************************)
TabKeys == {Key(k) : k \in {"alt+2", "alt+3", "alt+4", "alt+5", "tab", "shift+tab"}}

InitTabs == Started(handleKeyMsg(NewApp, Paste(URLValid)).app)

NextTabs ==
    \/ \E msg \in TabKeys : KeyPress(msg)
    \/ \E msg \in CompletionMsgs : RequestComplete(msg)

SpecTabs == InitTabs /\ [][NextTabs]_vars

(***************************************************************************)
(* Switching the inner tab                                                 *)
(***************************************************************************)
\* The active flags of the inner widgets of the query tab and of the result
\* tab, in the order of the inner tabs.
QueryInnerActive(q) ==
    <<q.ParamsInput.Active, q.AuthInput.Active, q.HeadersInput.Active,
      q.QueryBodyInput.focus>>

ResultInnerActive(r) == <<r.HeadersTab.Active, r.BodyTab.Active>>

\* After a switch to inner tab i: the index is i, widget i is active iff the
\* owning tab is, every other inner widget is inactive.
InnerTabSwitched(index, owner, flags, i) ==
    /\ index = i
    /\ \A j \in 1..Len(flags) : flags[j] = (owner /\ j = i + 1)

\* C28 (switching the inner tab): in every reachable state, for QueryTab and
\* ResultTab, SwitchToInnerTab(i) with i in range, NextTab and PrevTab leave
\* ActiveInnerTab = i (the next and the previous index, cyclically), the
\* widget of inner tab i active iff the owning tab is active and every
\* other inner widget, the previously active one included, inactive;
\* SwitchToInnerTab with an index out of range changes nothing, and
\* ActiveInnerTab is a valid index.
C28_InnerTabSwitch ==
    LET q == tabContainer.QueryTab
        r == tabContainer.ResultTab
        nq == Len(q.InnerTabs)
        nr == Len(r.InnerTabs)
    IN /\ q.ActiveInnerTab \in 0..(nq - 1) /\ r.ActiveInnerTab \in 0..(nr - 1)
       /\ \A i \in 0..(nq - 1) :
             \E x \in {QueryTabSwitchToInnerTab(q, i)} :
                InnerTabSwitched(x.ActiveInnerTab, q.Active, QueryInnerActive(x), i)
       /\ \E x \in {QueryTabNextTab(q)} :
             InnerTabSwitched(x.ActiveInnerTab, q.Active, QueryInnerActive(x),
                              (q.ActiveInnerTab + 1) % nq)
       /\ \E x \in {QueryTabPrevTab(q)} :
             InnerTabSwitched(x.ActiveInnerTab, q.Active, QueryInnerActive(x),
                              (q.ActiveInnerTab + nq - 1) % nq)
       /\ \A i \in {-1, nq} : QueryTabSwitchToInnerTab(q, i) = q
       /\ \A i \in 0..(nr - 1) :
             \E x \in {ResultTabSwitchToInnerTab(r, i)} :
                InnerTabSwitched(x.ActiveInnerTab, r.Active, ResultInnerActive(x), i)
       /\ \E x \in {ResultTabNextTab(r)} :
             InnerTabSwitched(x.ActiveInnerTab, r.Active, ResultInnerActive(x),
                              (r.ActiveInnerTab + 1) % nr)
       /\ \E x \in {ResultTabPrevTab(r)} :
             InnerTabSwitched(x.ActiveInnerTab, r.Active, ResultInnerActive(x),
                              (r.ActiveInnerTab + nr - 1) % nr)
       /\ \A i \in {-1, nr} : ResultTabSwitchToInnerTab(r, i) = r

\* Tab keys have taken the active query tab to its Headers inner tab, and
\* the result tab to its body view.
C28_HeadersTabActive ==
    /\ tabContainer.QueryTab.Active /\ tabContainer.QueryTab.ActiveInnerTab = 2
    /\ tabContainer.QueryTab.HeadersInput.Active
    /\ tabContainer.ResultTab.ActiveInnerTab = 1

(***************************************************************************)
(* Rows specification: the params grid, active or not, has been given a    *)
(* height, zero and negative heights included, and is asked for the        *)
(* number of rows it can display.                                          *)
(***************************************************************************)
MaxParamsHeight == 40

ParamsWithHeight(a, h, active) ==
    [a EXCEPT !.tabContainer.QueryTab.ParamsInput =
        [ParamsSetHeight(@, h) EXCEPT !.Active = active]]

InitRows ==
    /\ \E h \in (-MaxParamsHeight)..MaxParamsHeight, active \in BOOLEAN :
          AppIs(ParamsWithHeight(NewApp, h, active))
    /\ inflight = 0 /\ ticks = 0 /\ quit = FALSE /\ clipboard = <<>>
    /\ wrapCall = NoWrapCall /\ validateCall = NoValidateCall
    /\ rowsCall = [pc |-> "called", rows |-> 0] /\ dataCall = NoDataCall

\* getNumDisplayableInputRows returns.
RowsReturn ==
    /\ rowsCall.pc = "called"
    /\ rowsCall' = [pc |-> "returned",
                    rows |-> getNumDisplayableInputRows(tabContainer.QueryTab.ParamsInput)]
    /\ UNCHANGED <<methodSelector, urlInput, submitButton, tabContainer, toast, spinner,
                   width, height, inflight, ticks, quit, clipboard, wrapCall,
                   validateCall, dataCall>>

NextRows == RowsReturn

SpecRows == InitRows /\ [][NextRows]_vars

Clamp(x, lo, hi) == IF x < lo THEN lo ELSE IF x > hi THEN hi ELSE x

\* C29 (visible rows): for every container height, zero and negative
\* included, with h the height minus the vertical border and R = 6 rows,
\* getNumDisplayableInputRows returns
\* clamp(h - 2 - (1 if R > h - 2 else 0), 0, R).
C29_VisibleCount ==
    rowsCall.pc = "returned" =>
        LET h == tabContainer.QueryTab.ParamsInput.Height - VerticalBorderSize
            R == numParamRows
        IN rowsCall.rows = Clamp(h - 2 - (IF R > h - 2 THEN 1 ELSE 0), 0, R)

\* A grid of height 0 has answered that it can display all six rows.
C29_AllRowsAtHeightZero ==
    /\ rowsCall.pc = "returned"
    /\ tabContainer.QueryTab.ParamsInput.Height = 0
    /\ rowsCall.rows = numParamRows

(***************************************************************************)
(* Columns specification: the params grid is given a width, zero and       *)
(* negative widths included.                                               *)
(***************************************************************************)
MaxParamsWidth == 90

\* ParamsContainer.SetWidth is called on the params grid.
SetParamsWidth(w) ==
    /\ \E pc \in {ParamsSetWidth(tabContainer.QueryTab.ParamsInput, w)} :
          tabContainer' = [tabContainer EXCEPT !.QueryTab.ParamsInput = pc]
    /\ UNCHANGED <<methodSelector, urlInput, submitButton, toast, spinner,
                   width, height, inflight, ticks, quit, clipboard, wrapCall,
                   validateCall, rowsCall, dataCall>>

InitCols == Started(NewApp)

NextCols == \E w \in (-MaxParamsWidth)..MaxParamsWidth : SetParamsWidth(w)

SpecCols == InitCols /\ [][NextCols]_vars

\* C30 (column widths): for every container width, negative ones included,
\* with a = max(0, contentWidth - 1): if a >= 74 both columns get the outer
\* width 37, otherwise the name column gets floor(a/2) and the value column
\* a - floor(a/2), which sum to a; both outer widths and both text-input
\* content widths (the outer width less the input's border of 2) are >= 0.
C30_ColumnWidths ==
    LET pc == tabContainer.QueryTab.ParamsInput
        a == Max(0, pc.contentWidth - 1)
        n == nameColOuterWidth(a)
        v == valueColOuterWidth(a)
    IN /\ pc.contentWidth = Max(0, pc.Width - HorizontalBorderSize)
       /\ a >= 74 => n = 37 /\ v = 37
       /\ a < 74 => n = a \div 2 /\ v = a - a \div 2 /\ n + v = a
       /\ n >= 0 /\ v >= 0
       /\ pc.nameInputWidth >= 0 /\ pc.valueInputWidth >= 0
       /\ pc.nameInputWidth = Max(0, n - 2) /\ pc.valueInputWidth = Max(0, v - 2)

\* A grid of width 20: 17 columns are left for the two inputs, which get
\* the outer widths 8 and 9 and the content widths 6 and 7.
C30_OddSplit ==
    /\ tabContainer.QueryTab.ParamsInput.Width = 20
    /\ tabContainer.QueryTab.ParamsInput.nameInputWidth = 6
    /\ tabContainer.QueryTab.ParamsInput.valueInputWidth = 7

(***************************************************************************)
(* Data extraction.  A Go map is a function from its keys to their values; *)
(* a later row with the key of an earlier row overwrites its entry.        *)
(***************************************************************************)
\* strings.TrimSpace
TrimSpace(s) ==
    LET solid == {i \in 1..Len(s) : ~IsSpace(s[i])}
    IN IF solid = {} THEN <<>>
       ELSE SubSeq(s, CHOOSE i \in solid : \A j \in solid : i <= j,
                      CHOOSE i \in solid : \A j \in solid : i >= j)

\* The last of the rows in I.
LastRow(I) == CHOOSE i \in I : \A j \in I : i >= j

GetParams(pc) ==
    LET name(i) == TrimSpace(pc.Inputs[i].NameInput.value)
        rows == {i \in 1..Len(pc.Inputs) : name(i) # <<>>}
    IN [k \in {name(i) : i \in rows} |->
           TrimSpace(pc.Inputs[LastRow({i \in rows : name(i) = k})].ValueInput.value)]

GetHeaders(h) ==
    LET key(i) == h.inputs[i].HeaderSelect[h.inputs[i].SelectedHeader + 1]
        rows == {i \in 1..Len(h.inputs) :
                    /\ Len(h.inputs[i].HeaderSelect) > 0
                    /\ h.inputs[i].SelectedHeader < Len(h.inputs[i].HeaderSelect)
                    /\ key(i) # "Empty" /\ h.inputs[i].ValueInput.value # <<>>}
    IN [k \in {key(i) : i \in rows} |->
           h.inputs[LastRow({i \in rows : key(i) = k})].ValueInput.value]

(***************************************************************************)
(* Data specification: the first two rows of the params grid and of the    *)
(* headers grid have been filled in (names and values empty, blank, plain  *)
(* or padded with spaces; header names left on "Empty" or chosen), and     *)
(* GetParams and GetHeaders are called.                                    *)
(***************************************************************************)
FilledRows == 2

ParamNames == {<<>>, <<" ">>, <<"a">>, <<" ", "a", " ">>, <<"b">>}

FieldValues == {<<>>, <<"x">>, <<" ", "x", " ">>}

HeaderChoices == 0..2

\* The texts typed into row i of the params grid.
WithParam(a, i, n, v) ==
    [a EXCEPT !.tabContainer.QueryTab.ParamsInput.Inputs[i] =
        [NameInput |-> [@.NameInput EXCEPT !.value = n, !.pos = Len(n)],
         ValueInput |-> [@.ValueInput EXCEPT !.value = v, !.pos = Len(v)]]]

\* The name chosen and the value typed in row i of the headers grid.
WithHeader(a, i, c, v) ==
    [a EXCEPT !.tabContainer.QueryTab.HeadersInput.inputs[i] =
        [@ EXCEPT !.SelectedHeader = c,
                  !.ValueInput = [@ EXCEPT !.value = v, !.pos = Len(v)]]]

InitData ==
    /\ \/ \E n1 \in ParamNames, n2 \in ParamNames, v1 \in FieldValues, v2 \in FieldValues :
             AppIs(WithParam(WithParam(NewApp, 1, n1, v1), FilledRows, n2, v2))
       \/ \E c1 \in HeaderChoices, c2 \in HeaderChoices, v1 \in FieldValues, v2 \in FieldValues :
             AppIs(WithHeader(WithHeader(NewApp, 1, c1, v1), FilledRows, c2, v2))
    /\ inflight = 0 /\ ticks = 0 /\ quit = FALSE /\ clipboard = <<>>
    /\ wrapCall = NoWrapCall /\ validateCall = NoValidateCall /\ rowsCall = NoRowsCall
    /\ dataCall = [pc |-> "called", params |-> <<>>, headers |-> <<>>]

\* GetParams and GetHeaders return.
DataReturn ==
    /\ dataCall.pc = "called"
    /\ dataCall' = [pc |-> "returned",
                    params |-> GetParams(tabContainer.QueryTab.ParamsInput),
                    headers |-> GetHeaders(tabContainer.QueryTab.HeadersInput)]
    /\ UNCHANGED <<methodSelector, urlInput, submitButton, tabContainer, toast, spinner,
                   width, height, inflight, ticks, quit, clipboard, wrapCall,
                   validateCall, rowsCall>>

NextData == DataReturn

SpecData == InitData /\ [][NextData]_vars

\* The name of header row i.
HeaderKey(h, i) == h.inputs[i].HeaderSelect[h.inputs[i].SelectedHeader + 1]

\* C31, the params half: a row contributes to GetParams iff its trimmed name
\* is non-empty, whatever its value, and the entry of a name is the trimmed
\* value of a row with that name.
ParamsExtracted ==
    LET pc == tabContainer.QueryTab.ParamsInput
        m == dataCall.params
    IN /\ \A i \in 1..Len(pc.Inputs) :
             TrimSpace(pc.Inputs[i].NameInput.value) # <<>>
                <=> TrimSpace(pc.Inputs[i].NameInput.value) \in DOMAIN m
       /\ \A k \in DOMAIN m :
             /\ k # <<>>
             /\ \E i \in 1..Len(pc.Inputs) :
                   /\ TrimSpace(pc.Inputs[i].NameInput.value) = k
                   /\ m[k] = TrimSpace(pc.Inputs[i].ValueInput.value)

\* C31, the headers half: a row contributes to GetHeaders iff its selector
\* is not on "Empty", whatever its value, and the entry of a header name is
\* the value of a row with that name, verbatim.
HeadersExtracted ==
    LET h == tabContainer.QueryTab.HeadersInput
        m == dataCall.headers
    IN /\ \A i \in 1..Len(h.inputs) :
             HeaderKey(h, i) # "Empty" <=> HeaderKey(h, i) \in DOMAIN m
       /\ \A k \in DOMAIN m :
             \E i \in 1..Len(h.inputs) :
                HeaderKey(h, i) = k /\ m[k] = h.inputs[i].ValueInput.value

\* C31 (data extraction): GetParams and GetHeaders go through all rows; a
\* row contributes an entry iff its primary field is non-blank (trimmed
\* parameter name non-empty, header selector not on "Empty"), independently
\* of its value; the entry's value is the row's value, trimmed for
\* parameters and verbatim for headers, possibly empty.
C31_DataExtraction ==
    dataCall.pc = "returned" => ParamsExtracted /\ HeadersExtracted

\* GetHeaders has returned an empty map although the first row has the name
\* "Accept" chosen (and an empty value).
C31_HeaderWithoutValueDropped ==
    /\ dataCall.pc = "returned"
    /\ HeaderKey(tabContainer.QueryTab.HeadersInput, 1) = "Accept"
    /\ tabContainer.QueryTab.HeadersInput.inputs[1].ValueInput.value = <<>>
    /\ "Accept" \notin DOMAIN dataCall.headers

(***************************************************************************)
(* The toast and the keys                                                  *)
(***************************************************************************)
\* Keys other than Enter and the quit keys: hotkeys, tab keys, arrows, a
\* typed character.
OtherKeys ==
    {Key(k) : k \in {"alt+1", "alt+2", "alt+3", "alt+4", "alt+5", "tab", "shift+tab",
                     "up", "down", "left", "right"}}
    \cup {Rune("x")}

\* C32 (the toast captures the keys): while the toast is visible, a key
\* other than Enter and the quit keys changes nothing of the method
\* selector, the URL field, the submit button and the tab container and
\* dispatches no request.
C32_ToastCapturesKeys ==
    toast.Visible =>
        \A k \in OtherKeys :
            \E r \in {handleKeyMsg(App, k)} :
                /\ r.app.methodSelector = methodSelector
                /\ r.app.urlInput = urlInput
                /\ r.app.submitButton = submitButton
                /\ r.app.tabContainer = tabContainer
                /\ r.cmds = {}

\* The toast is visible and a hotkey has moved the focus to the method
\* selector, whose dropdown has been opened, under it.
C32_FocusMovedUnderToast ==
    /\ toast.Visible
    /\ methodSelector.Active /\ methodSelector.DropdownOpen

\* C33 (dismissing the toast): Enter on a visible toast hides it and clears
\* its message, leaves the URL field as the only active top-level widget,
\* reaches no widget's Update, copies nothing and yields no command, so no
\* request is submitted and the URL text and the method selection stay.
C33_EnterDismissesToast ==
    toast.Visible =>
        \E r \in {handleKeyMsg(App, Key("enter"))} :
            /\ ~r.app.toast.Visible /\ r.app.toast.Message = <<>>
            /\ ActiveTopLevel(r.app) = {"url"}
            /\ handleKeyMsgDelivers(App, Key("enter")) = {}
            /\ handleKeyMsgCopies(App, Key("enter")) = <<>>
            /\ r.cmds = {}
            /\ r.app.urlInput.TextInput.value = urlInput.TextInput.value
            /\ r.app.methodSelector = MethodSelectorSetActive(methodSelector, FALSE)
            /\ r.app.submitButton = SubmitButtonSetActive(submitButton, FALSE)
            /\ r.app.tabContainer = TabsSetActive(tabContainer, FALSE)
            /\ r.app.spinner = spinner

\* The toast is visible with a message while the tab container, and not
\* the URL field, is active.
C33_ToastOverTabs ==
    /\ toast.Visible /\ toast.Message # <<>>
    /\ tabContainer.Active /\ ~urlInput.Active

(***************************************************************************)
(* Navigation in the response body                                         *)
(***************************************************************************)
\* The navigation commands with the keys the viewport's KeyMap binds to
\* them; jump-to-top and jump-to-bottom are the container's own keys.
NavKeys == {"home", "end", "up", "k", "down", "j", "pgup", "pgdown", "ctrl+u", "ctrl+d"}

\* The offset the command of key k asks for, before clamping.
NavTarget(vp, k) ==
    CASE k = "home" -> 0
      [] k = "end" -> Len(vp.lines) - vp.Height
      [] k \in {"up", "k"} -> vp.YOffset - 1
      [] k \in {"down", "j"} -> vp.YOffset + 1
      [] k = "pgup" -> vp.YOffset - vp.Height
      [] k = "pgdown" -> vp.YOffset + vp.Height
      [] k = "ctrl+u" -> vp.YOffset - (vp.Height \div 2)
      [] k = "ctrl+d" -> vp.YOffset + (vp.Height \div 2)

BodyView == tabContainer.ResultTab.BodyTab

OffsetInRange(vp) == vp.YOffset >= 0 /\ vp.YOffset <= Max(0, Len(vp.lines) - vp.Height)

NavigationApplied ==
    BodyView.Active =>
        \A k \in NavKeys :
            \E b \in {BodyContainerUpdate(BodyView, Key(k))} :
                /\ b.Viewport.YOffset =
                      Clamp(NavTarget(BodyView.Viewport, k), 0, maxYOffset(BodyView.Viewport))
                /\ b.Viewport.lines = BodyView.Viewport.lines
                /\ OffsetInRange(b.Viewport)

\* C34 (viewport navigation): while the Body view is active every
\* navigation command, given by a key the KeyMap binds to it, moves the
\* line offset by its step, clamped to [0, max(0, lines - height)], and the
\* offset of the viewport is within that range in every state.
C34_ViewportNavigation == NavigationApplied /\ OffsetInRange(BodyView.Viewport)

\* The active Body view shows a body with lines below its window, and the
\* page-down key of the KeyMap leaves the offset where it is.
C34_PageDownIgnored ==
    /\ BodyView.Active
    /\ ~AtBottom(BodyView.Viewport)
    /\ BodyView.Viewport.Height > 0
    /\ BodyContainerUpdate(BodyView, Key("pgdown")) = BodyView
    /\ BodyView.rawContent \notin {<<>>, BodyPlaceholder}

(***************************************************************************)
(* Enter on a value field of the headers grid                              *)
(***************************************************************************)
\* C35 (Enter toggles the edit state): in the active headers grid with the
\* focus on a row's value field, Enter makes a focused value input blurred
\* and a blurred one focused, as seen when Update has returned; the focus
\* stays on the same cell.
C35_EnterTogglesValueField ==
    \A h \in {HeadersGrid(App)} :
        h.Active /\ h.focusedInput = 1 =>
            \E h1 \in {HeadersUpdate(h, Key("enter"))} :
                /\ FocusedHeaderRow(h1).ValueInput.focus = ~FocusedHeaderRow(h).ValueInput.focus
                /\ h1.focusedRow = h.focusedRow /\ h1.focusedInput = 1

\* The focus is on a focused value field of the active headers grid; the
\* key switch blurs the field on Enter, and Update returns it focused.
C35_ValueFieldRefocused ==
    \E h \in {HeadersGrid(App)} :
        /\ h.Active /\ h.focusedInput = 1 /\ h.focusedRow > 0
        /\ FocusedHeaderRow(h).ValueInput.focus
        /\ ~FocusedHeaderRow(HeadersKeySwitch(h, "enter")).ValueInput.focus
        /\ FocusedHeaderRow(HeadersUpdate(h, Key("enter"))).ValueInput.focus

(***************************************************************************)
(* The consumers of a key in the Auth pane                                 *)
(***************************************************************************)
AuthPane(a) == a.tabContainer.QueryTab.AuthInput

\* The keys of the selector's key map that the application routes into the
\* pane, and a character.
AuthKeys == {Key(k) : k \in {"enter", " ", "up", "down", "j", "k"}} \cup {Rune("x")}

\* The state of the detail components the user edits: the focused field
\* and the texts.
DetailState(ac) ==
    [focusedField |-> ac.basicAuthDetails.focusedField,
     username |-> ac.basicAuthDetails.usernameInput.value,
     password |-> ac.basicAuthDetails.passwordInput.value,
     token |-> ac.tokenAuthDetails.tokenInput.value]

\* C36 (single consumer per key): a key routed into the active Auth pane
\* that changes the auth-type selector changes neither the focused field
\* nor the texts of the detail components, and a key that changes those
\* changes nothing of the selector.
C36_SingleConsumer ==
    \A ac \in {AuthPane(App)} :
        ac.Active =>
            \A msg \in AuthKeys :
                \E ac1 \in {AuthUpdate(ac, msg)} :
                    ~(/\ ac1.authSelector # ac.authSelector
                      /\ DetailState(ac1) # DetailState(ac))

\* Basic is selected and its component active while the selector is open:
\* Down moves the highlight of the selector and the focused field of the
\* Basic component.
C36_DownConsumedTwice ==
    \E ac \in {AuthPane(App)} :
        /\ ac.Active /\ ac.authSelector.isOpen
        /\ AuthSelectedType(ac) = "Basic" /\ ac.basicAuthDetails.active
        /\ \E ac1 \in {AuthUpdate(ac, Key("down"))} :
              /\ ac1.authSelector.highlightedIndex # ac.authSelector.highlightedIndex
              /\ ac1.basicAuthDetails.focusedField # ac.basicAuthDetails.focusedField

(***************************************************************************)
(* The open dropdown of the headers grid                                   *)
(***************************************************************************)
\* The rows of the headers grid whose dropdown is open, counted from 0.
OpenDropdownRows(h) == {i - 1 : i \in {j \in 1..Len(h.inputs) : h.inputs[j].DropdownOpen}}

C38_InactiveSelectorClosed ==
    /\ ~methodSelector.Active => ~methodSelector.DropdownOpen
    /\ \A as \in {AuthPane(App).authSelector} : ~as.active => ~as.isOpen

\* The URL field has the focus and the method selector, inactive, still has
\* its dropdown open.
C38_OpenDropdownLeftBehind ==
    /\ urlInput.Active /\ ~methodSelector.Active
    /\ methodSelector.DropdownOpen
    /\ ~quit

(***************************************************************************)
(* The spinner and the requests in flight                                  *)
(***************************************************************************)
\* C39 (the busy indicator tracks the outstanding requests): in every
\* reachable state, also when submit was triggered again before an earlier
\* request completed, the spinner is visible while a dispatched request
\* has not delivered its completion message.
C39_SpinnerTracksRequests == inflight > 0 => spinner.Visible

\* A request is still in flight, an earlier one has completed, and the
\* spinner is hidden.
C39_HiddenWhileInFlight ==
    /\ inflight > 0 /\ ~spinner.Visible
    /\ tabContainer.ResultTab.BodyTab.rawContent # BodyPlaceholder

====
